---- MODULE Spec2Model ----
(***************************************************************************)
(* MediTrack: the monitor loop (MonitorService.run_monitoring_loop and the *)
(* GUI's MonitorWorker._run_monitoring_loop) with its state store and      *)
(* notifier, and the OpenSky client (rate limiter, response cache, retry). *)
(***************************************************************************)
EXTENDS Integers, Sequences, FiniteSets, TLC

NULL == "null"

(* ------------------------------ bounds -------------------------------- *)
\* polls (ticks) the loop may start
MaxPolls == 2
\* state tuples in one provider response
MaxStates == 2
\* largest reading of the wall clock, in seconds
MaxWall == 1

\* largest reading of time.time(), in tenths of a second
MaxTime == 5
\* largest RateLimiter.max_calls tried
MaxMaxCalls == 2
\* largest RateLimiter.period tried, in tenths of a second
MaxPeriod == 2
\* rate-limited calls admitted in one run of the rate limiter
MaxRequests == 3
\* provider GETs sent in one run of the cached client
MaxGets == 2
\* largest cache_max_age tried, in tenths of a second
MaxAge == 2
\* save_state_snapshot calls made on one State Store
MaxSaves == 4
\* MonitorService.interval_seconds
MaxInterval == 2
\* rows of one aircraft's history handed to the detector
MaxHistory == 5

(* ------------------------------ roster -------------------------------- *)
\* MonitorService.mode_s_set: upper-cased Mode S codes of the loaded roster
mode_s_set == {"A1", "B2", "D4", "E5"}

\* str.upper() on the hex strings the provider can return
Upper(h) ==
    CASE h = "a1" -> "A1"
      [] h = "b2" -> "B2"
      [] h = "c3" -> "C3"
      [] h = "d4" -> "D4"
      [] h = "e5" -> "E5"
      [] OTHER -> h

\* state tuples of a provider response: index 0 (icao24), 5/6 (position
\* present or None) and 14 (squawk); every other index is None
StateTuples ==
    { [hex |-> "a1", pos |-> TRUE,  squawk |-> "7700"],
      [hex |-> "B2", pos |-> FALSE, squawk |-> "7700"],
      [hex |-> "c3", pos |-> TRUE,  squawk |-> "7700"],
      [hex |-> NULL, pos |-> FALSE, squawk |-> NULL] }

RECURSIVE SeqsUpTo(_, _)
SeqsUpTo(S, n) ==
    IF n = 0 THEN { <<>> }
    ELSE LET shorter == SeqsUpTo(S, n - 1)
         IN  shorter \cup { Append(s, x) : s \in { t \in shorter : Len(t) = n - 1 }, x \in S }

\* what client.get_states can return: a body whose 'states' is null, or a list
Responses ==
    { [is_list |-> FALSE, states |-> <<>>] }
        \cup { [is_list |-> TRUE, states |-> s] : s \in SeqsUpTo(StateTuples, MaxStates) }

NoResponse == [is_list |-> FALSE, states |-> <<>>]

(* ----------------------------- variables ------------------------------ *)
VARIABLES
    mode,              \* "service": run_monitoring_loop; "worker": MonitorWorker
    svc,               \* worker.monitor_service is not None
    running,           \* MonitorService.running
    paused,            \* MonitorService.paused
    should_pause,      \* MonitorWorker._should_pause
    poll_count,        \* MonitorService.poll_count
    pc,                \* position of the loop thread
    wall,              \* datetime.now().timestamp()
    current_states,    \* dict icao24 -> state, in insertion order
    previous_states,   \* rows returned by get_all_latest_states
    state_history,     \* rows returned by get_aircraft_history, per icao24
    current_timestamp, \* process_state_changes' ingestion timestamp
    idx,               \* index of the for loop in progress
    anomalies,         \* anomalies of the tick
    aircraft_history,  \* table aircraft_history
    next_id,           \* AUTOINCREMENT of aircraft_history
    anomaly_log,       \* table anomaly_log
    jsonl,             \* anomalies.jsonl
    notified,          \* console output / anomaly_detected signal
    geocoded,          \* anomalies for which the reverse geocoder was called
    pauseReq,          \* history: pause() called and resume() not yet
    stopCalled,        \* history: stop() called
    tick_id0,          \* history: next_id when the tick started
    tick_keys0,        \* history: (icao24, timestamp) keys when the tick started
    feed,              \* bodies the provider may answer get_states with
    polled,            \* history: the body get_states returned to this poll
    \* OpenSkyClient
    now,               \* time.time(), in tenths of a second
    max_calls,         \* RateLimiter.max_calls
    period,            \* RateLimiter.period, in tenths of a second
    calls,             \* RateLimiter.calls
    cpc,               \* position of the thread inside the client
    rl_now,            \* wrapper's local now
    cache_dir,         \* OpenSkyClient.cache_dir is set
    cache,             \* files of cache_dir: cache key -> (body, mtime) or NoFile
    req,               \* endpoint, params and TTL of the request in progress
    retries_left,      \* urllib3 Retry.total of the GET in progress
    http_attempts,     \* HTTP attempts made for the GET in progress
    last_status,       \* status of the latest HTTP attempt
    result,            \* what the latest _make_request returned or raised
    admitted,          \* history: every timestamp appended to calls
    slept_for,         \* history: calls[0] the wrapper last waited for
    hit0,              \* history: fresh cache entry seen when the request began
    \* OAuth2
    use_oauth2,        \* OpenSkyClient.use_oauth2
    access_token,      \* OpenSkyClient.access_token
    token_expires_at,  \* OpenSkyClient.token_expires_at
    bearer,            \* Authorization header of the GET in progress
    token_issued,      \* history: time.time() when access_token was obtained
    token_ttl,         \* history: expires_in that came with access_token
    token_posts,       \* history: token requests answered so far
    \* one tick's data path: poll, reads, detect, filter, handle
    d_pc,              \* position in the data path
    d_form,            \* "store": history read from the State Store; "dict": passed as state dicts
    d_past,            \* icao24 -> earlier states of the aircraft, newest first
    d_current,         \* the provider's states, then current_states
    d_previous,        \* previous_states: icao24 -> <<row>> or <<>>
    d_history,         \* state_history: icao24 -> rows
    d_anoms,           \* what detect_anomalies returned
    d_out,             \* what process_state_changes returned
    d_log,             \* records log_anomaly inserted
    sleep_left,        \* seconds left of the inter-tick sleep in progress
    \* threads calling the rate-limited wrapper of one client
    t_pc,              \* thread -> position inside the wrapper
    t_now,             \* thread -> the wrapper's local now
    t_new,             \* thread -> the list its comprehension built
    t_wake,            \* thread -> when its time.sleep ends
    \* location_utils: threads calling the reverse geocoder
    _last_geocode_time, \* module global, in tenths of a second
    g_pc,              \* thread -> position inside the lookup
    g_wake,            \* thread -> when its time.sleep ends
    g_starts,          \* history: when each requests.get was issued
    raised_at,         \* history: the step whose exception the except clause handles
    \* MonitorService.__init__: region / state selection
    b_pc,              \* position: worker's run, __init__, poll
    b_args,            \* region, states, skip_interactive as passed on
    b_self,            \* self.region, self.states, self.region_bbox, self.state_bbox
    b_bbox,            \* bbox handed to client.get_states
    tick_secs,         \* history: seconds the tick numbered .tick has taken so far
    \* the response cache under two requests
    k_pc,              \* position: write, lookup
    k_written,         \* (endpoint, params) whose body _cache_response wrote
    k_asked,           \* (endpoint, params) of the later _make_request
    k_key,             \* name of the file written
    k_hit              \* the later request found that file

loopVars == << mode, svc, running, paused, should_pause, poll_count, pc, wall,
               current_states, previous_states, state_history,
               current_timestamp, idx, anomalies, aircraft_history, next_id,
               anomaly_log, jsonl, notified, geocoded, pauseReq, stopCalled,
               tick_id0, tick_keys0 >>

clientVars_but_cpc == << now, max_calls, period, calls, rl_now, cache_dir, cache, req,
                         retries_left, http_attempts, last_status, result,
                         admitted, slept_for, hit0 >>

clientVars == << now, max_calls, period, calls, cpc, rl_now, cache_dir, cache, req,
                 retries_left, http_attempts, last_status, result,
                 admitted, slept_for, hit0 >>

authVars == << use_oauth2, access_token, token_expires_at, bearer,
               token_issued, token_ttl, token_posts >>

detVars == << d_pc, d_form, d_past, d_current, d_previous, d_history,
              d_anoms, d_out, d_log >>

thrVars == << t_pc, t_now, t_new, t_wake >>

\* what the monitor loop and the sequential client leave alone
sideVars == << authVars, detVars, sleep_left >>

\* the other subsystems' variables
geoVars == << _last_geocode_time, g_pc, g_wake, g_starts >>

concVars == << thrVars, geoVars >>

bbVars == << b_pc, b_args, b_self, b_bbox >>

keyVars == << k_pc, k_written, k_asked, k_key, k_hit >>

restVars == << concVars, raised_at, bbVars, tick_secs, keyVars >>

auxVars == << sideVars, restVars >>

vars == << loopVars, feed, polled, clientVars, auxVars >>

ctlVars == << running, paused, should_pause, pauseReq, stopCalled >>
tickVars == << current_states, previous_states, state_history,
               current_timestamp, idx, anomalies >>
storeVars == << aircraft_history, next_id, anomaly_log, jsonl, notified, geocoded >>
ghostTick == << tick_id0, tick_keys0 >>

\* threads that share one client
Threads == {1, 2}

\* no thread is inside the wrapper
ThrIdle ==
    /\ t_pc = [ th \in Threads |-> "out" ]
    /\ t_now = [ th \in Threads |-> 0 ]
    /\ t_new = [ th \in Threads |-> <<>> ]
    /\ t_wake = [ th \in Threads |-> 0 ]

\* 1.0 s in tenths of a second
OneSecond == 10

\* no lookup made yet: _last_geocode_time = 0 is the epoch, long ago
GeoIdle ==
    /\ _last_geocode_time = 0 - OneSecond
    /\ g_pc = [ th \in Threads |-> "out" ]
    /\ g_wake = [ th \in Threads |-> 0 ]
    /\ g_starts = <<>>

\* no request
NoKeyRequest == [endpoint |-> <<>>, params |-> <<>>]

\* the response cache is not in use
KeyIdle ==
    /\ k_pc = "off"
    /\ k_written = NoKeyRequest
    /\ k_asked = NoKeyRequest
    /\ k_key = <<>>
    /\ k_hit = FALSE

\* states=None, and self.* before the selection
NoStates == [given |-> FALSE, codes |-> <<>>]
\* bbox=None
NoBBox == [of |-> "none", region |-> NULL, codes |-> {}]
NoSelection == [region |-> NULL, states |-> NoStates, region_bbox |-> NoBBox,
                state_bbox |-> NoBBox]

\* no MonitorService under construction
BBoxIdle ==
    /\ b_pc = "off"
    /\ b_args = [entry |-> "none", region |-> NULL, states |-> NoStates, skip |-> FALSE]
    /\ b_self = NoSelection
    /\ b_bbox = NoBBox

\* no earlier state of any aircraft
NoPast == [ h \in mode_s_set |-> <<>> ]

\* the data path is not in use
DetIdle ==
    /\ d_pc = "off"
    /\ d_form = "store"
    /\ d_past = NoPast
    /\ d_current = <<>>
    /\ d_previous = NoPast
    /\ d_history = NoPast
    /\ d_anoms = <<>>
    /\ d_out = <<>>
    /\ d_log = <<>>

(* --------------------------- state store ------------------------------ *)
Keys(table) == { << r.icao24, r.timestamp >> : r \in table }

\* an INSERT that does not replace
save_state_snapshot_Insert(table, id, icao24, state, timestamp) ==
    table \cup { [id |-> id, icao24 |-> Upper(icao24), timestamp |-> timestamp,
                  squawk |-> state.squawk] }

\* StateTracker.save_state_snapshot: INSERT OR REPLACE on UNIQUE(icao24, timestamp)
save_state_snapshot(table, id, icao24, state, timestamp) ==
    { r \in table : ~(r.icao24 = Upper(icao24) /\ r.timestamp = timestamp) }
        \cup { [id |-> id, icao24 |-> Upper(icao24), timestamp |-> timestamp,
                squawk |-> state.squawk] }

\* StateTracker.get_all_latest_states: the row of MAX(timestamp) per icao24
get_all_latest_states(table) ==
    { r \in table : \A q \in table : q.icao24 = r.icao24 => q.timestamp <= r.timestamp }

RECURSIVE OrderDesc(_)
OrderDesc(rows) ==
    IF rows = {} THEN <<>>
    ELSE LET top == CHOOSE r \in rows : \A q \in rows : q.timestamp <= r.timestamp
         IN  << top >> \o OrderDesc(rows \ {top})

\* StateTracker.get_aircraft_history: newest first (limit=20 exceeds MaxPolls)
get_aircraft_history(table, icao24) ==
    OrderDesc({ r \in table : r.icao24 = Upper(icao24) })

(* ------------------------- poll_aircraft_states ----------------------- *)
\* dict assignment d[k] = v: keeps the position of an existing key
DictPut(d, v) ==
    IF \E i \in 1..Len(d) : d[i].icao24 = v.icao24
    THEN [ i \in 1..Len(d) |-> IF d[i].icao24 = v.icao24 THEN v ELSE d[i] ]
    ELSE Append(d, v)

\* the roster test without the membership half
InRoster_AnyHex(icao24) == icao24 # NULL

\* poll_aircraft_states: "if icao24 and icao24 in self.mode_s_set"
InRoster(icao24) == icao24 # NULL /\ icao24 \in mode_s_set

RECURSIVE BuildStates(_, _, _)
\* poll_aircraft_states: the loop over all_states
BuildStates(all_states, ts, acc) ==
    IF all_states = <<>> THEN acc
    ELSE LET state  == Head(all_states)
             icao24 == IF state.hex = NULL THEN NULL ELSE Upper(state.hex)
         IN  IF InRoster(icao24)
             THEN BuildStates(Tail(all_states), ts,
                     DictPut(acc, [icao24 |-> icao24, pos |-> state.pos,
                                   squawk |-> state.squawk, timestamp |-> ts]))
             ELSE BuildStates(Tail(all_states), ts, acc)

\* MonitorService.poll_aircraft_states on the body get_states returned
poll_aircraft_states(response, ts) ==
    LET all_states == IF response.is_list THEN response.states ELSE <<>>
    IN  BuildStates(all_states, ts, <<>>)

(* --------------------------- detection -------------------------------- *)
\* AnomalyDetector.emergency_squawks and f'emergency_squawk_{squawk_type}'
emergency_squawks == {"7500", "7600", "7700"}

\* a type that carries no squawk_type
squawk_anomaly_type_Bare(squawk) == "emergency_squawk"

squawk_anomaly_type(squawk) ==
    CASE squawk = "7500" -> "emergency_squawk_hijack"
      [] squawk = "7600" -> "emergency_squawk_radio_failure"
      [] squawk = "7700" -> "emergency_squawk_emergency"

\* AnomalyDetector.check_emergency_squawk
check_emergency_squawk(tick, state) ==
    IF state.squawk # NULL /\ state.squawk \in emergency_squawks
    THEN << [tick |-> tick, icao24 |-> state.icao24,
             type |-> squawk_anomaly_type(state.squawk), severity |-> "CRITICAL"] >>
    ELSE <<>>

RECURSIVE detect_anomalies(_, _)
\* AnomalyDetector.detect_anomalies on states that carry no velocity,
\* altitude, heading or on_ground: only the squawk rule can fire
detect_anomalies(tick, states) ==
    IF states = <<>> THEN <<>>
    ELSE check_emergency_squawk(tick, Head(states)) \o detect_anomalies(tick, Tail(states))

StateOf(states, icao24) ==
    LET i == CHOOSE i \in 1..Len(states) : states[i].icao24 = icao24 IN states[i]

(* ------------------------------- Init --------------------------------- *)
LoopInit ==
    /\ sleep_left = 0
    /\ raised_at = "none"
    /\ tick_secs = [tick |-> 0, secs |-> 0]
    /\ mode \in {"service", "worker"}
    /\ svc = (mode = "service")
    /\ running = FALSE
    /\ paused = FALSE
    /\ should_pause = FALSE
    /\ poll_count = 0
    /\ pc = IF mode = "service" THEN "start" ELSE "construct"
    /\ wall \in 0..MaxWall
    /\ current_states = <<>>
    /\ previous_states = {}
    /\ state_history = <<>>
    /\ current_timestamp = 0
    /\ idx = 0
    /\ anomalies = <<>>
    /\ aircraft_history = {}
    /\ next_id = 1
    /\ anomaly_log = <<>>
    /\ jsonl = <<>>
    /\ notified = <<>>
    /\ geocoded = {}
    /\ pauseReq = FALSE
    /\ stopCalled = FALSE
    /\ tick_id0 = 1
    /\ tick_keys0 = {}
    /\ polled = NoResponse

(* ------------------------ lifecycle calls ----------------------------- *)
\* MonitorService.pause / MonitorWorker.pause_monitoring
Pause ==
    /\ pc # "done"
    /\ IF mode = "service"
       THEN paused' = TRUE /\ UNCHANGED should_pause
       ELSE should_pause' = TRUE /\ UNCHANGED paused
    /\ pauseReq' = TRUE
    /\ UNCHANGED << clientVars, feed, auxVars, polled, mode, svc, running, stopCalled, poll_count, pc, wall,
                    tickVars, storeVars, ghostTick >>

\* MonitorService.resume / MonitorWorker.resume_monitoring
Resume ==
    /\ pc # "done"
    /\ IF mode = "service"
       THEN paused' = FALSE /\ UNCHANGED should_pause
       ELSE should_pause' = FALSE /\ UNCHANGED paused
    /\ pauseReq' = FALSE
    /\ UNCHANGED << clientVars, feed, auxVars, polled, mode, svc, running, stopCalled, poll_count, pc, wall,
                    tickVars, storeVars, ghostTick >>

\* MonitorService.stop / MonitorWorker.stop_monitoring
Stop ==
    /\ pc # "done"
    /\ IF mode = "service"
       THEN running' = FALSE /\ UNCHANGED should_pause
       ELSE /\ running' = IF svc THEN FALSE ELSE running
            /\ should_pause' = FALSE
    /\ stopCalled' = TRUE
    /\ UNCHANGED << clientVars, feed, auxVars, polled, mode, svc, paused, pauseReq, poll_count, pc, wall,
                    tickVars, storeVars, ghostTick >>

(* --------------------------- loop thread ------------------------------ *)
\* MonitorWorker.run: the service is constructed on the worker thread
WorkerConstruct ==
    /\ pc = "construct"
    /\ svc' = TRUE
    /\ pc' = "start"
    /\ UNCHANGED << clientVars, feed, auxVars, polled, mode, ctlVars, poll_count, wall, tickVars, storeVars, ghostTick >>

\* MonitorWorker.run: construction raises, 'stopped' is emitted
WorkerConstructFail ==
    /\ pc = "construct"
    /\ pc' = "done"
    /\ UNCHANGED << clientVars, feed, auxVars, polled, mode, svc, ctlVars, poll_count, wall, tickVars, storeVars, ghostTick >>

\* run_monitoring_loop / _run_monitoring_loop: running = True; paused = False
RunLoopStart ==
    /\ pc = "start"
    /\ running' = TRUE
    /\ paused' = FALSE
    /\ pc' = "loop"
    /\ UNCHANGED << clientVars, feed, auxVars, polled, mode, svc, should_pause, pauseReq, stopCalled, poll_count, wall,
                    tickVars, storeVars, ghostTick >>

\* while self.running:
LoopTest ==
    /\ pc = "loop"
    /\ pc' = IF running THEN "pausecheck" ELSE "done"
    /\ UNCHANGED << clientVars, feed, auxVars, polled, mode, svc, ctlVars, poll_count, wall, tickVars, storeVars, ghostTick >>

PauseFlag == IF mode = "service" THEN paused ELSE should_pause

\* while <pause flag> and self.running: sleep(0.5)
PauseCheck ==
    /\ pc = "pausecheck"
    /\ IF PauseFlag /\ running
       THEN /\ paused' = IF mode = "worker" THEN TRUE ELSE paused
            /\ pc' = "pausecheck"
       ELSE /\ paused' = paused
            /\ pc' = "runcheck"
    /\ UNCHANGED << clientVars, feed, auxVars, polled, mode, svc, running, should_pause, pauseReq, stopCalled, poll_count,
                    wall, tickVars, storeVars, ghostTick >>

\* if not self.running: break
RunCheck ==
    /\ pc = "runcheck"
    /\ pc' = IF running THEN "incr" ELSE "done"
    /\ UNCHANGED << clientVars, feed, auxVars, polled, mode, svc, ctlVars, poll_count, wall, tickVars, storeVars, ghostTick >>

\* the locals of a finished tick are not read again
TickLocalsDropped ==
    /\ current_states' = <<>>
    /\ previous_states' = {}
    /\ state_history' = <<>>
    /\ anomalies' = <<>>
    /\ idx' = 0
    /\ current_timestamp' = 0

\* self.poll_count += 1: the tick begins
TickBegin ==
    /\ pc = "incr"
    /\ poll_count < MaxPolls
    /\ poll_count' = poll_count + 1
    /\ paused' = IF mode = "worker" THEN FALSE ELSE paused
    /\ pc' = "poll"
    /\ tick_id0' = next_id
    /\ tick_keys0' = Keys(aircraft_history)
    /\ UNCHANGED << clientVars, feed, auxVars, polled, mode, svc, running, should_pause, pauseReq, stopCalled, wall,
                    tickVars, storeVars >>

\* current_states = self.poll_aircraft_states()
Poll ==
    /\ pc = "poll"
    /\ \E body \in feed :
          /\ polled' = body
          /\ current_states' = poll_aircraft_states(body, wall)
    /\ pc' = "prev"
    /\ UNCHANGED << clientVars, feed, auxVars, mode, svc, ctlVars, poll_count, wall, previous_states, state_history,
                    current_timestamp, idx, anomalies, storeVars, ghostTick >>

\* previous_states = self.state_tracker.get_all_latest_states()
ReadPrevious ==
    /\ pc = "prev"
    /\ previous_states' = get_all_latest_states(aircraft_history)
    /\ idx' = 1
    /\ pc' = "hist"
    /\ polled' = NoResponse
    /\ UNCHANGED << clientVars, feed, auxVars, mode, svc, ctlVars, poll_count, wall, current_states, state_history,
                    current_timestamp, anomalies, storeVars, ghostTick >>

\* the history loop saving each snapshot before it reads the history
ReadHistory_SavesFirst ==
    /\ pc = "hist"
    /\ IF idx <= Len(current_states)
       THEN /\ aircraft_history' = save_state_snapshot(aircraft_history, next_id,
                   current_states[idx].icao24, current_states[idx], wall)
            /\ next_id' = next_id + 1
            /\ state_history' = Append(state_history,
                   get_aircraft_history(aircraft_history', current_states[idx].icao24))
            /\ idx' = idx + 1
            /\ UNCHANGED << pc, current_timestamp >>
       ELSE /\ current_timestamp' = wall
            /\ idx' = 1
            /\ pc' = "save"
            /\ UNCHANGED << state_history, aircraft_history, next_id >>
    /\ UNCHANGED << clientVars, feed, auxVars, polled, mode, svc, ctlVars, poll_count, wall, current_states, previous_states,
                    anomalies, anomaly_log, jsonl, notified, geocoded, ghostTick >>

\* for icao24 in current_states: state_history[icao24] = get_aircraft_history(...)
\* then process_state_changes takes current_timestamp
ReadHistory ==
    /\ pc = "hist"
    /\ IF idx <= Len(current_states)
       THEN /\ state_history' = Append(state_history,
                   get_aircraft_history(aircraft_history, current_states[idx].icao24))
            /\ idx' = idx + 1
            /\ UNCHANGED << pc, current_timestamp >>
       ELSE /\ current_timestamp' = wall
            /\ idx' = 1
            /\ pc' = "save"
            /\ UNCHANGED state_history
    /\ UNCHANGED << clientVars, feed, auxVars, polled, mode, svc, ctlVars, poll_count, wall, current_states, previous_states,
                    anomalies, storeVars, ghostTick >>

\* for icao24, state in current_states.items(): save_state_snapshot(...)
SaveSnapshot ==
    /\ pc = "save"
    /\ IF idx <= Len(current_states)
       THEN /\ aircraft_history' = save_state_snapshot(aircraft_history, next_id,
                   current_states[idx].icao24, current_states[idx], current_timestamp)
            /\ next_id' = next_id + 1
            /\ idx' = idx + 1
            /\ UNCHANGED pc
       ELSE /\ pc' = "detect"
            /\ UNCHANGED << aircraft_history, next_id, idx >>
    /\ UNCHANGED << clientVars, feed, auxVars, polled, mode, svc, ctlVars, poll_count, wall, current_states, previous_states,
                    state_history, current_timestamp, anomalies,
                    anomaly_log, jsonl, notified, geocoded, ghostTick >>

\* anomalies = detect_anomalies(...); if anomalies: handle them
Detect ==
    /\ pc = "detect"
    /\ anomalies' = detect_anomalies(poll_count, current_states)
    /\ idx' = 1
    /\ pc' = IF anomalies' = <<>> THEN "summary" ELSE "h_info"
    /\ UNCHANGED << clientVars, feed, auxVars, polled, mode, svc, ctlVars, poll_count, wall, current_states, previous_states,
                    state_history, current_timestamp, storeVars, ghostTick >>

\* handle_anomalies: aircraft_info and the optional Broadcastify lookup
HandleInfo ==
    /\ pc = "h_info"
    /\ LET anomaly == anomalies[idx]
       IN  geocoded' =
              IF /\ anomaly.icao24 # NULL
                 /\ anomaly.icao24 \in mode_s_set
                 /\ StateOf(current_states, anomaly.icao24).pos
              THEN geocoded \cup {anomaly}
              ELSE geocoded
    /\ pc' = "h_log"
    /\ UNCHANGED << clientVars, feed, auxVars, polled, mode, svc, ctlVars, poll_count, wall, tickVars,
                    aircraft_history, next_id, anomaly_log, jsonl, notified, ghostTick >>

\* handle_anomalies going on to notify without the log_anomaly insert
HandleLog_NotWritten ==
    /\ pc = "h_log"
    /\ pc' = "h_notify"
    /\ UNCHANGED << clientVars, feed, auxVars, polled, mode, svc, ctlVars, poll_count, wall, tickVars,
                    storeVars, ghostTick >>

\* handle_anomalies: self.state_tracker.log_anomaly(...)
HandleLog ==
    /\ pc = "h_log"
    /\ anomaly_log' = Append(anomaly_log, anomalies[idx])
    /\ pc' = "h_notify"
    /\ UNCHANGED << clientVars, feed, auxVars, polled, mode, svc, ctlVars, poll_count, wall, tickVars,
                    aircraft_history, next_id, jsonl, notified, geocoded, ghostTick >>

\* handle_anomalies: notify_anomaly (console, then best-effort _write_to_log);
\* the worker writes the log line and emits anomaly_detected
HandleNotify ==
    /\ pc = "h_notify"
    /\ notified' = Append(notified, anomalies[idx])
    /\ \/ jsonl' = Append(jsonl, anomalies[idx])
       \/ jsonl' = jsonl
    /\ idx' = idx + 1
    /\ pc' = IF idx < Len(anomalies) THEN "h_info" ELSE "summary"
    /\ UNCHANGED << clientVars, feed, auxVars, polled, mode, svc, ctlVars, poll_count, wall, current_states, previous_states,
                    state_history, current_timestamp, anomalies,
                    aircraft_history, next_id, anomaly_log, geocoded, ghostTick >>

\* notify_summary / summary_updated.emit
Summary ==
    /\ pc = "summary"
    /\ pc' = "sleepcheck"
    /\ TickLocalsDropped
    /\ UNCHANGED << clientVars, feed, auxVars, polled, mode, svc, ctlVars, poll_count, wall, storeVars, ghostTick >>

RaisingPcs == {"poll", "prev", "hist", "save", "detect", "h_info", "h_log", "h_notify", "summary"}

\* a step of the tick raises an Exception
TickError ==
    /\ pc \in RaisingPcs
    /\ pc' = "except"
    /\ polled' = NoResponse
    /\ raised_at' = pc
    /\ UNCHANGED << clientVars, feed, sideVars, concVars, bbVars, tick_secs, keyVars, mode, svc, ctlVars, poll_count, wall, tickVars, storeVars, ghostTick >>

\* an except clause that leaves the loop
ExceptHandler_Break ==
    /\ pc = "except"
    /\ pc' = "done"
    /\ TickLocalsDropped
    /\ raised_at' = "none"
    /\ UNCHANGED << clientVars, feed, sideVars, concVars, bbVars, tick_secs, keyVars, polled, mode, svc, ctlVars, poll_count, wall, storeVars, ghostTick >>

\* an except clause that records the failure in the anomaly log
ExceptHandler_LogsFailure ==
    /\ pc = "except"
    /\ pc' = "sleepcheck"
    /\ TickLocalsDropped
    /\ raised_at' = "none"
    /\ anomaly_log' = Append(anomaly_log, [icao24 |-> NULL, tick |-> poll_count])
    /\ UNCHANGED << clientVars, feed, sideVars, concVars, bbVars, tick_secs, keyVars, polled, mode, svc, ctlVars, poll_count, wall,
                    aircraft_history, next_id, jsonl, notified, geocoded, ghostTick >>

\* except Exception as e: print / error_occurred.emit
ExceptHandler ==
    /\ pc = "except"
    /\ pc' = "sleepcheck"
    /\ TickLocalsDropped
    /\ raised_at' = "none"
    /\ UNCHANGED << clientVars, feed, sideVars, concVars, bbVars, tick_secs, keyVars, polled, mode, svc, ctlVars, poll_count, wall, storeVars, ghostTick >>

\* if self.running: (sleep)
SleepCheck ==
    /\ pc = "sleepcheck"
    /\ pc' = IF running THEN "sleep" ELSE "loop"
    /\ UNCHANGED << clientVars, feed, auxVars, polled, mode, svc, ctlVars, poll_count, wall, tickVars, storeVars, ghostTick >>

\* time.sleep(self.interval_seconds): the wall clock moves, or is set
Sleep ==
    /\ pc = "sleep"
    /\ wall' \in 0..MaxWall
    /\ pc' = "loop"
    /\ UNCHANGED << clientVars, feed, auxVars, polled, mode, svc, ctlVars, poll_count, tickVars, storeVars, ghostTick >>

\* time.sleep(self.interval_seconds) / msleep entered
SleepBegin ==
    /\ pc = "sleep"
    /\ pc' = "sleeping"
    /\ sleep_left' = MaxInterval
    /\ UNCHANGED << clientVars, feed, authVars, detVars, restVars, polled, mode, svc, ctlVars, poll_count,
                    wall, tickVars, storeVars, ghostTick >>

\* one second of the sleep passes; nothing reads the flags meanwhile
SleepSecond ==
    /\ pc = "sleeping"
    /\ sleep_left > 0
    /\ sleep_left' = sleep_left - 1
    /\ UNCHANGED << clientVars, feed, authVars, detVars, restVars, polled, mode, svc, ctlVars, poll_count,
                    pc, wall, tickVars, storeVars, ghostTick >>

\* the sleep returns after interval_seconds
SleepEnd ==
    /\ pc = "sleeping"
    /\ sleep_left = 0
    /\ wall' \in 0..MaxWall
    /\ pc' = "loop"
    /\ UNCHANGED << clientVars, feed, authVars, detVars, restVars, polled, mode, svc, ctlVars, poll_count,
                    sleep_left, tickVars, storeVars, ghostTick >>

\* seconds the tick in progress has taken
TickDuration == IF tick_secs.tick = poll_count THEN tick_secs.secs ELSE 0

\* a second passes while the tick is at work (the poll, the store, detection)
TickSecond ==
    /\ pc \in {"poll", "prev", "hist", "save", "detect", "summary"}
    /\ TickDuration <= MaxInterval
    /\ tick_secs' = [tick |-> poll_count, secs |-> TickDuration + 1]
    /\ UNCHANGED << loopVars, feed, polled, clientVars, sideVars, concVars, raised_at, bbVars,
                    keyVars >>

InTry == {"loop", "pausecheck", "runcheck", "incr", "sleepcheck", "sleep", "sleeping", "except"}
            \cup RaisingPcs

\* except KeyboardInterrupt: self.running = False (main thread only)
KeyboardInterrupt ==
    /\ mode = "service"
    /\ pc \in InTry
    /\ running' = FALSE
    /\ pc' = "done"
    /\ polled' = NoResponse
    /\ UNCHANGED << clientVars, feed, auxVars, mode, svc, paused, should_pause, pauseReq, stopCalled, poll_count,
                    wall, tickVars, storeVars, ghostTick >>

(* ---------------------------- OpenSkyClient --------------------------- *)
\* RateLimiter.__call__: the 0.1 s added to the wait
Slack == 1
\* Retry(total=3)
RetryTotal == 3
\* Retry(status_forcelist=[429, 500, 502, 503, 504])
status_forcelist == {429, 500, 502, 503, 504}
\* _get_cache_key: key[:100]
KeyLimit == 100

\* a connection or read error instead of a response
ConnErr == 0
\* what one HTTP attempt can meet: a status (413 stands for a 413 that
\* carries Retry-After; 429 and 503 stand for the forcelist), or a
\* connection/read error
Outcomes == {200, 401, 404, 413, 429, 503, ConnErr}

\* JSON bodies the provider can answer with
Bodies == {"{}", "[]", "{states}"}

\* Python truthiness of a parsed body (None when nothing was cached)
Truthy(body) == body \notin {NULL, "{}", "[]"}

\* (endpoint, json.dumps(params, sort_keys=True)) of the requests issued
Requests ==
    { [endpoint |-> << "s", "/", "a" >>, params |-> << "{", "}" >>] }

\* the characters _get_cache_key keeps: c.isalnum() or c in ('-', '_')
KeyChars == {"s", "a", "t", "b", "1", "5", "-", "_"}

\* OpenSkyClient._get_cache_key
_get_cache_key(r) ==
    LET key  == r.endpoint \o << "_" >> \o r.params
        safe == [ i \in 1..Len(key) |-> IF key[i] \in KeyChars THEN key[i] ELSE "_" ]
    IN  SubSeq(safe, 1, IF Len(safe) < KeyLimit THEN Len(safe) ELSE KeyLimit)

CacheKeys == { _get_cache_key(r) : r \in Requests }

NoFile == [exists |-> FALSE, body |-> NULL, mtime |-> 0]

\* OpenSkyClient._get_cached_response
_get_cached_response(files, cache_key, max_age_seconds, t) ==
    IF ~files[cache_key].exists THEN NULL
    ELSE IF t - files[cache_key].mtime > max_age_seconds THEN NULL
    ELSE files[cache_key].body

\* _make_request: "if cached: return cached"
CacheHit(cached) == Truthy(cached)

\* RateLimiter.__call__: drop the calls outside the window
Trim(cs, t, per) == SelectSeq(cs, LAMBDA call_time : t - call_time < per)

\* sleep_time with the subtraction the wrong way round
SleepTime_SignError(cs, t, per) == (t - cs[1]) - per + Slack

\* RateLimiter.__call__: sleep_time
SleepTime(cs, t, per) == per - (t - cs[1]) + Slack

\* a Retry that retries every status but 200
is_retry_AnyError(outcome, total) == outcome # 200

\* a Retry whose forcelist holds 401 too
is_retry_With401(outcome, total) ==
    \/ outcome \in status_forcelist \cup {ConnErr, 401}
    \/ outcome = 413 /\ total > 0

\* urllib3 Retry under Retry(total=3, status_forcelist=..., allowed_methods=["GET"]):
\* a forcelist status and a connection/read error always go through
\* increment(); a 413 with Retry-After only while total is non-zero
is_retry(outcome, total) ==
    \/ outcome \in status_forcelist \cup {ConnErr}
    \/ outcome = 413 /\ total > 0

NotSlept == -1

NoRequest == [r |-> [endpoint |-> <<>>, params |-> <<>>], ttl |-> 0]

ClientInit ==
    /\ now = 0
    /\ calls = <<>>
    /\ cpc = "idle"
    /\ rl_now = 0
    /\ cache = [ k \in CacheKeys |-> NoFile ]
    /\ req = NoRequest
    /\ retries_left = RetryTotal
    /\ http_attempts = 0
    /\ last_status = 200
    /\ result = [kind |-> "none", body |-> NULL]
    /\ admitted = <<>>
    /\ slept_for = NotSlept
    /\ hit0 = NULL
    /\ access_token = NULL
    /\ token_expires_at = 0
    /\ bearer = NULL
    /\ token_issued = 0
    /\ token_ttl = 0
    /\ token_posts = 0

rlVars == << max_calls, period, calls, rl_now, admitted, slept_for >>
httpVars == << retries_left, http_attempts, last_status >>

\* time passes
Advance ==
    /\ cpc \in {"idle", "rl_enter", "rl_check", "func"}
    /\ now < MaxTime
    /\ now' = now + 1
    /\ UNCHANGED << loopVars, feed, auxVars, polled, rlVars, httpVars, cpc, cache, cache_dir, req, result, hit0 >>

\* _make_request up to the rate-limited _do_request
MakeRequest ==
    /\ cpc = "idle"
    /\ \E r \in Requests, ttl \in 1..MaxAge :
          LET cached == IF cache_dir
                        THEN _get_cached_response(cache, _get_cache_key(r), ttl, now)
                        ELSE NULL
          IN  /\ req' = [r |-> r, ttl |-> ttl]
              /\ hit0' = cached
              /\ IF CacheHit(cached)
                 THEN /\ result' = [kind |-> "cached", body |-> cached]
                      /\ cpc' = "return"
                 ELSE /\ result' = [kind |-> "pending", body |-> NULL]
                      /\ cpc' = "rl_enter"
    /\ UNCHANGED << loopVars, feed, auxVars, polled, now, rlVars, httpVars, cache, cache_dir >>

\* wrapper: now = time.time(); trim
RLEnter ==
    /\ cpc = "rl_enter"
    /\ rl_now' = now
    /\ calls' = Trim(calls, now, period)
    /\ cpc' = "rl_check"
    /\ UNCHANGED << loopVars, feed, auxVars, polled, now, max_calls, period, admitted, slept_for,
                    httpVars, cache, cache_dir, req, result, hit0 >>

\* wrapper: wait if the limit is hit, then look at the clock again and trim
RLWait ==
    /\ cpc = "rl_check"
    /\ IF Len(calls) >= max_calls /\ SleepTime(calls, rl_now, period) > 0
       THEN \E t \in (now + SleepTime(calls, rl_now, period))..MaxTime :
               /\ now' = t
               /\ rl_now' = t
               /\ calls' = Trim(calls, t, period)
               /\ slept_for' = calls[1]
       ELSE UNCHANGED << now, rl_now, calls, slept_for >>
    /\ cpc' = "rl_append"
    /\ UNCHANGED << loopVars, feed, auxVars, polled, max_calls, period, admitted,
                    httpVars, cache, cache_dir, req, result, hit0 >>

\* wrapper: self.calls.append(now); return func(...)
RLAppend ==
    /\ cpc = "rl_append"
    /\ Len(admitted) < (IF cache_dir THEN MaxGets ELSE MaxRequests)
    /\ calls' = Append(calls, rl_now)
    /\ admitted' = Append(admitted, rl_now)
    /\ cpc' = IF use_oauth2 THEN "token" ELSE "func"
    /\ UNCHANGED << loopVars, feed, auxVars, polled, now, max_calls, period, rl_now, slept_for,
                    httpVars, cache, cache_dir, req, result, hit0 >>

\* _do_request: one HTTP attempt of session.get under the Retry strategy,
\* and what _do_request makes of the final response
HttpAttempt ==
    /\ cpc = "func"
    /\ http_attempts' = http_attempts + 1
    /\ \E outcome \in Outcomes :
          /\ last_status' = outcome
          /\ IF is_retry(outcome, retries_left)
             THEN IF retries_left > 0
                  THEN /\ retries_left' = retries_left - 1
                       /\ cpc' = "func"
                       /\ UNCHANGED << result, cache >>
                  ELSE /\ result' = [kind |-> "request_failed", body |-> NULL]
                       /\ cpc' = "return"
                       /\ UNCHANGED << retries_left, cache >>
             ELSE IF outcome = 401
             THEN /\ result' = [kind |-> "auth_failed", body |-> NULL]
                  /\ cpc' = "return"
                  /\ UNCHANGED << retries_left, cache >>
             ELSE IF outcome = 200
             THEN \E body \in Bodies :
                     /\ result' = [kind |-> "fetched", body |-> body]
                     /\ cache' = IF cache_dir
                                 THEN [cache EXCEPT ![_get_cache_key(req.r)] =
                                          [exists |-> TRUE, body |-> body, mtime |-> now]]
                                 ELSE cache
                     /\ cpc' = "return"
                     /\ UNCHANGED retries_left
             ELSE /\ result' = [kind |-> "http_error", body |-> NULL]
                  /\ cpc' = "return"
                  /\ UNCHANGED << retries_left, cache >>
    /\ UNCHANGED << loopVars, feed, auxVars, polled, now, rlVars, cache_dir, req, hit0 >>

\* the wrapped function returns or raises, whatever it did
FuncReturns ==
    /\ cpc = "func"
    /\ cpc' = "return"
    /\ \E kind \in {"fetched", "request_failed"} :
          result' = [kind |-> kind, body |-> NULL]
    /\ UNCHANGED << loopVars, feed, auxVars, polled, now, rlVars, httpVars, cache, cache_dir, req, hit0 >>

\* _make_request has returned or raised: its locals are gone
Return ==
    /\ cpc = "return"
    /\ cpc' = "idle"
    /\ result' = [kind |-> "none", body |-> NULL]
    /\ hit0' = NULL
    /\ retries_left' = RetryTotal
    /\ http_attempts' = 0
    /\ last_status' = 200
    /\ slept_for' = NotSlept
    /\ rl_now' = 0
    /\ req' = NoRequest
    /\ bearer' = NULL
    /\ UNCHANGED << loopVars, feed, polled, now, max_calls, period, calls, admitted,
                    cache, cache_dir, use_oauth2, access_token, token_expires_at,
                    token_issued, token_ttl, token_posts, detVars, restVars,
                    sleep_left >>

(* ------------------------------ OAuth2 -------------------------------- *)
\* "- 60  # Refresh 1 min early", in tenths of a second
EarlyRefresh == 600

\* token_data.get('expires_in', 1800), in tenths of a second
DefaultExpiresIn == 18000

\* answers of the token endpoint: a status, and for 200 the JSON body's
\* access_token and expires_in (in tenths of a second; NULL: key absent)
TokenReplies ==
    { [status |-> 200, access_token |-> tok, has_expires_in |-> h, expires_in |-> e] :
         tok \in {"tok", NULL}, h \in {TRUE}, e \in {590, 610, 620} }
      \cup { [status |-> 200, access_token |-> "tok", has_expires_in |-> FALSE, expires_in |-> 0],
             [status |-> 401, access_token |-> NULL, has_expires_in |-> FALSE, expires_in |-> 0],
             [status |-> ConnErr, access_token |-> NULL, has_expires_in |-> FALSE, expires_in |-> 0] }

ExpiresInOf(reply) ==
    IF reply.has_expires_in THEN reply.expires_in ELSE DefaultExpiresIn

\* a token cache that never expires
TokenFresh_Forever(token, t, expires_at) == token # NULL

\* "if self.access_token and time.time() < self.token_expires_at"
TokenFresh(token, t, expires_at) == token # NULL /\ t < expires_at

\* _do_request's header block: _get_access_token, then
\* "if token: headers['Authorization'] = ..."
GetAccessToken ==
    /\ cpc = "token"
    /\ IF TokenFresh(access_token, now, token_expires_at)
       THEN /\ bearer' = access_token
            /\ UNCHANGED << access_token, token_expires_at, token_issued, token_ttl,
                            token_posts >>
       ELSE /\ token_posts' = token_posts + 1
            /\ \E reply \in TokenReplies :
                  IF reply.status = 200
                  THEN /\ access_token' = reply.access_token
                       /\ token_expires_at' = now + ExpiresInOf(reply) - EarlyRefresh
                       /\ token_issued' = now
                       /\ token_ttl' = ExpiresInOf(reply)
                       /\ bearer' = reply.access_token
                  ELSE /\ bearer' = NULL
                       /\ UNCHANGED << access_token, token_expires_at, token_issued,
                                       token_ttl >>
    /\ cpc' = "func"
    /\ UNCHANGED << loopVars, feed, polled, clientVars_but_cpc, use_oauth2, detVars,
                    restVars, sleep_left >>

\* a second passes between two requests
AdvanceSecond ==
    /\ cpc = "idle"
    /\ now + 10 <= 10 * MaxTime
    /\ now' = now + 10
    /\ UNCHANGED << loopVars, feed, auxVars, polled, rlVars, httpVars, cpc, cache, cache_dir,
                    req, result, hit0 >>

NextClient ==
    Advance \/ MakeRequest \/ RLEnter \/ RLWait \/ RLAppend \/ HttpAttempt \/ Return

Next ==
    \/ WorkerConstruct \/ WorkerConstructFail \/ RunLoopStart
    \/ LoopTest \/ PauseCheck \/ RunCheck \/ TickBegin
    \/ Poll \/ ReadPrevious \/ ReadHistory \/ SaveSnapshot \/ Detect
    \/ HandleInfo \/ HandleLog \/ HandleNotify \/ Summary
    \/ TickError \/ ExceptHandler \/ SleepCheck \/ Sleep \/ KeyboardInterrupt

\* the service as run_monitor.py / MonitorWindow start it, client idle
LoopFrozen ==
    /\ mode = "service"
    /\ LoopInit
    /\ feed = Responses

\* the monitor loop with its store and notifier; no lifecycle calls
Init ==
    /\ LoopInit
    /\ feed = Responses
    /\ ClientInit
    /\ ThrIdle
    /\ GeoIdle
    /\ KeyIdle
    /\ BBoxIdle
    /\ cache_dir = TRUE
    /\ use_oauth2 = FALSE
    /\ DetIdle
    /\ max_calls = 1
    /\ period = 1

Spec == Init /\ [][Next]_vars

\* the same loop under a sky that is either empty (null 'states') or holds
\* one roster aircraft squawking 7700
InitSkip ==
    /\ LoopInit
    /\ feed = { NoResponse,
                 [is_list |-> TRUE,
                  states |-> << [hex |-> "a1", pos |-> TRUE, squawk |-> "7700"] >>] }
    /\ ClientInit
    /\ ThrIdle
    /\ GeoIdle
    /\ KeyIdle
    /\ BBoxIdle
    /\ cache_dir = TRUE
    /\ use_oauth2 = FALSE
    /\ DetIdle
    /\ max_calls = 1
    /\ period = 1

SpecSkip == InitSkip /\ [][Next]_vars

\* the loop under pause/resume/stop calls from another thread, quiet sky
InitLife ==
    /\ LoopInit
    /\ feed = { [is_list |-> TRUE, states |-> <<>>] }
    /\ ClientInit
    /\ ThrIdle
    /\ GeoIdle
    /\ KeyIdle
    /\ BBoxIdle
    /\ cache_dir = TRUE
    /\ use_oauth2 = FALSE
    /\ DetIdle
    /\ max_calls = 1
    /\ period = 1

NextLife ==
    \/ Pause \/ Resume \/ Stop
    \/ WorkerConstruct \/ WorkerConstructFail \/ RunLoopStart
    \/ LoopTest \/ PauseCheck \/ RunCheck \/ TickBegin
    \/ Poll \/ ReadPrevious \/ ReadHistory \/ SaveSnapshot \/ Detect \/ Summary
    \/ TickError \/ ExceptHandler \/ SleepCheck \/ Sleep \/ KeyboardInterrupt

SpecLife == InitLife /\ [][NextLife]_vars

\* the same, with the inter-tick sleep taking its time
NextSleep ==
    \/ Pause \/ Resume \/ Stop
    \/ WorkerConstruct \/ WorkerConstructFail \/ RunLoopStart
    \/ LoopTest \/ PauseCheck \/ RunCheck \/ TickBegin
    \/ Poll \/ ReadPrevious \/ ReadHistory \/ SaveSnapshot \/ Detect \/ Summary
    \/ TickError \/ ExceptHandler \/ SleepCheck
    \/ SleepBegin \/ SleepSecond \/ SleepEnd \/ KeyboardInterrupt

SpecSleep == InitLife /\ [][NextSleep]_vars

\* the loop left alone, its ticks and its sleeps taking their time
NextPace ==
    \/ WorkerConstruct \/ WorkerConstructFail \/ RunLoopStart
    \/ LoopTest \/ PauseCheck \/ RunCheck \/ TickBegin
    \/ Poll \/ ReadPrevious \/ ReadHistory \/ SaveSnapshot \/ Detect \/ Summary
    \/ TickSecond \/ TickError \/ ExceptHandler \/ SleepCheck
    \/ SleepBegin \/ SleepSecond \/ SleepEnd \/ KeyboardInterrupt

SpecPace == InitLife /\ [][NextPace]_vars

\* sequential rate-limited requests of a client without cache_dir
InitRL ==
    /\ LoopFrozen
    /\ wall = 0
    /\ ClientInit
    /\ ThrIdle
    /\ GeoIdle
    /\ KeyIdle
    /\ BBoxIdle
    /\ cache_dir = FALSE
    /\ use_oauth2 = FALSE
    /\ DetIdle
    /\ max_calls \in 1..MaxMaxCalls
    /\ period \in 1..MaxPeriod

NextRL ==
    Advance \/ MakeRequest \/ RLEnter \/ RLWait \/ RLAppend \/ FuncReturns \/ Return

SpecRL == InitRL /\ [][NextRL]_vars

\* sequential requests of a client with cache_dir
InitReq ==
    /\ LoopFrozen
    /\ wall = 0
    /\ ClientInit
    /\ ThrIdle
    /\ GeoIdle
    /\ KeyIdle
    /\ BBoxIdle
    /\ cache_dir = TRUE
    /\ use_oauth2 = FALSE
    /\ DetIdle
    /\ max_calls = MaxMaxCalls
    /\ period = 1

SpecReq == InitReq /\ [][NextClient]_vars

\* sequential requests of a client built with OAuth2 credentials
InitAuth ==
    /\ LoopFrozen
    /\ wall = 0
    /\ ClientInit
    /\ ThrIdle
    /\ GeoIdle
    /\ KeyIdle
    /\ BBoxIdle
    /\ cache_dir = FALSE
    /\ use_oauth2 = TRUE
    /\ DetIdle
    /\ max_calls = MaxMaxCalls
    /\ period = 1

NextAuth ==
    \/ AdvanceSecond \/ MakeRequest \/ RLEnter \/ RLWait \/ RLAppend
    \/ GetAccessToken \/ HttpAttempt \/ Return

SpecAuth == InitAuth /\ [][NextAuth]_vars

(* ------------------- one tick's data path, all rules ------------------ *)
\* Python None in a numeric field
None == -9999

\* dict.get(key): None when the key is absent
Get(d, k) == IF k \in DOMAIN d THEN d[k] ELSE None

\* truthiness of a number or None
IsTrue(x) == x # None /\ x # 0

\* "a or b" on numbers
PyOr(a, b) == IF IsTrue(a) THEN a ELSE b

\* "state[i] if len(state) > i and state[i] else None"
IfTruthy(x) == IF IsTrue(x) THEN x ELSE None

Abs(x) == IF x < 0 THEN -x ELSE x

RECURSIVE Sum(_)
Sum(xs) == IF xs = <<>> THEN 0 ELSE Head(xs) + Sum(Tail(xs))

Max(S) == CHOOSE x \in S : \A y \in S : y <= x
Min(S) == CHOOSE x \in S : \A y \in S : x <= y

\* AnomalyDetector thresholds as MonitorService builds it from config
speed_threshold_knots == 150
multi_launch_window_seconds == 300
rapid_climb_rate_ft_min == 2000
rapid_descent_ft == 1000
rapid_descent_window_seconds == 30

\* unit factors as fractions: 1.94384 kn per m/s, 3.28084 ft per m,
\* 196.85 ft/min per m/s
KnotsNum == 12149
KnotsDen == 6250
FeetNum == 82021
FeetDen == 25000
FtMinNum == 3937
FtMinDen == 20

\* suppression radius, and the airports of the geo data set on a local
\* grid whose unit is one kilometre
GEO_NEAR_AIRPORT_KM == 5
airports == { [lat |-> 0, lon |-> 0] }

\* geo_context.haversine_km on the grid
haversine_km(lat1, lon1, lat2, lon2) == Abs(lat1 - lat2) + Abs(lon1 - lon2)

\* GeoContext.is_near_airport: nearest distance <= radius_km
is_near_airport(lat, lon, radius_km) ==
    \E a \in airports : haversine_km(lat, lon, a.lat, a.lon) <= radius_km

\* poll_aircraft_states: the dict built for one state vector
parse_state(state, ts) ==
    [ icao24        |-> Upper(state.icao24),
      last_contact  |-> IfTruthy(state.last_contact),
      longitude     |-> state.longitude,
      latitude      |-> state.latitude,
      baro_altitude |-> IfTruthy(state.baro_altitude),
      on_ground     |-> IfTruthy(state.on_ground),
      velocity      |-> IfTruthy(state.velocity),
      true_track    |-> IfTruthy(state.true_track),
      vertical_rate |-> IfTruthy(state.vertical_rate),
      geo_altitude  |-> IfTruthy(state.geo_altitude),
      squawk        |-> state.squawk,
      timestamp     |-> ts ]

RECURSIVE ems_states(_, _, _)
\* poll_aircraft_states: the loop over all_states, with every field parsed
ems_states(all_states, ts, acc) ==
    IF all_states = <<>> THEN acc
    ELSE LET state  == Head(all_states)
             icao24 == IF state.icao24 = NULL THEN NULL ELSE Upper(state.icao24)
         IN  IF InRoster(icao24)
             THEN ems_states(Tail(all_states), ts, DictPut(acc, parse_state(state, ts)))
             ELSE ems_states(Tail(all_states), ts, acc)

\* the aircraft_history row save_state_snapshot writes, as
\* get_aircraft_history / get_all_latest_states hand it back (dict(row))
snapshot_row(state, timestamp) ==
    [ icao24        |-> Upper(state.icao24),
      timestamp     |-> timestamp,
      latitude      |-> Get(state, "latitude"),
      longitude     |-> Get(state, "longitude"),
      altitude      |-> PyOr(Get(state, "baro_altitude"), Get(state, "geo_altitude")),
      velocity      |-> Get(state, "velocity"),
      on_ground     |-> IF IsTrue(Get(state, "on_ground")) THEN 1 ELSE 0,
      vertical_rate |-> Get(state, "vertical_rate"),
      heading       |-> Get(state, "true_track"),
      squawk        |-> state.squawk,
      last_contact  |-> Get(state, "last_contact") ]

Anomaly(icao24, type, severity) ==
    [icao24 |-> icao24, type |-> type, severity |-> severity,
     aircraft |-> <<>>, hospital |-> FALSE]

\* history[-4:-1] if len(history) >= 4 else history[:-1]
baseline_states(history) ==
    IF Len(history) >= 4
    THEN SubSeq(history, Len(history) - 3, Len(history) - 1)
    ELSE SubSeq(history, 1, Len(history) - 1)

Column(rows, k) == [ i \in 1..Len(rows) |-> Get(rows[i], k) ]

\* AnomalyDetector.check_speed_anomaly
check_speed_anomaly(icao24, current_state, history) ==
    LET velocity_ms == Get(current_state, "velocity")
        baseline_velocities ==
            SelectSeq(Column(baseline_states(history), "velocity"),
                      LAMBDA v : v # None /\ v > 0)
        n     == Len(baseline_velocities)
        total == Sum(baseline_velocities)
        high  == velocity_ms * KnotsNum > speed_threshold_knots * KnotsDen
        sudden ==
            /\ Len(history) >= 2
            /\ n > 0
            /\ total > 0
            /\ velocity_ms * KnotsNum > 30 * KnotsDen
            /\ (velocity_ms * n - total) * 100 > 60 * total
            /\ (velocity_ms * n - total) * KnotsNum > 20 * KnotsDen * n
    IN  IF velocity_ms = None THEN <<>>
        ELSE (IF high THEN << Anomaly(icao24, "high_speed", "HIGH") >> ELSE <<>>)
             \o (IF sudden THEN << Anomaly(icao24, "sudden_speed_increase", "MEDIUM") >>
                 ELSE <<>>)

\* check_altitude_anomaly: the body of "for past_state in history"
DescentHit(current_altitude, cutoff_time, past_state) ==
    LET past_time == PyOr(Get(past_state, "last_contact"), Get(past_state, "timestamp"))
        past_altitude == PyOr(Get(past_state, "baro_altitude"), Get(past_state, "geo_altitude"))
    IN  /\ past_time >= cutoff_time
        /\ past_altitude # None
        /\ (past_altitude - current_altitude) * FeetNum > rapid_descent_ft * FeetDen

\* AnomalyDetector.check_altitude_anomaly
check_altitude_anomaly(icao24, current_state, history) ==
    LET current_altitude == PyOr(Get(current_state, "baro_altitude"),
                                 Get(current_state, "geo_altitude"))
        vertical_rate == Get(current_state, "vertical_rate")
        current_time  == PyOr(Get(current_state, "last_contact"),
                              Get(current_state, "timestamp"))
        cutoff_time   == current_time - rapid_descent_window_seconds
        climb   == /\ vertical_rate # None
                   /\ vertical_rate * FtMinNum > rapid_climb_rate_ft_min * FtMinDen
        descent == /\ current_altitude # None
                   /\ \E i \in 1..Len(history) :
                         DescentHit(current_altitude, cutoff_time, history[i])
    IN  (IF climb THEN << Anomaly(icao24, "rapid_climb", "HIGH") >> ELSE <<>>)
        \o (IF descent THEN << Anomaly(icao24, "rapid_descent", "CRITICAL") >> ELSE <<>>)

\* AnomalyDetector.check_emergency_squawk, all three codes
emergency_squawk(icao24, current_state) ==
    IF current_state.squawk # NULL /\ current_state.squawk \in emergency_squawks
    THEN << Anomaly(icao24, squawk_anomaly_type(current_state.squawk), "CRITICAL") >>
    ELSE <<>>

\* the change of heading without the fold at 180
heading_change_NoWrap(prev_heading, curr_heading) ==
    Abs(curr_heading - prev_heading)

\* change of heading between two rows, folded into 0..180
heading_change(prev_heading, curr_heading) ==
    LET change == Abs(curr_heading - prev_heading)
    IN  IF change > 180 THEN 360 - change ELSE change

Last5(history) == SubSeq(history, Len(history) - 4, Len(history))

\* AnomalyDetector.check_flight_pattern
check_flight_pattern(icao24, current_state, history) ==
    LET large_changes ==
            { i \in 1..(Len(history) - 1) :
                 /\ Get(history[i], "heading") # None
                 /\ Get(history[i + 1], "heading") # None
                 /\ heading_change(Get(history[i], "heading"),
                                   Get(history[i + 1], "heading")) > 90 }
        alts == [ i \in 1..5 |-> PyOr(Get(Last5(history)[i], "baro_altitude"),
                                      Get(Last5(history)[i], "geo_altitude")) ]
        altitudes  == SelectSeq(alts, IsTrue)
        velocities == SelectSeq(Column(Last5(history), "velocity"), IsTrue)
        erratic == Cardinality(large_changes) >= 3
        hover   == /\ Len(history) >= 5
                   /\ Len(altitudes) >= 3
                   /\ Len(velocities) >= 3
                   /\ Sum(altitudes) * FeetNum > 5000 * FeetDen * Len(altitudes)
                   /\ Sum(velocities) * KnotsNum < 30 * KnotsDen * Len(velocities)
    IN  IF Len(history) < 3 THEN <<>>
        ELSE (IF erratic THEN << Anomaly(icao24, "erratic_heading", "MEDIUM") >> ELSE <<>>)
             \o (IF hover THEN << Anomaly(icao24, "hovering_high_altitude", "LOW") >>
                 ELSE <<>>)

\* a launch test that needs no previous state
IsLaunch_NoPrevious(current_state, previous) ==
    ~IsTrue(Get(current_state, "on_ground"))

\* check_multiple_launch: "if previous_state: ... if previous_on_ground
\* and not current_on_ground"
IsLaunch(current_state, previous) ==
    /\ previous # <<>>
    /\ IsTrue(Get(previous[1], "on_ground"))
    /\ ~IsTrue(Get(current_state, "on_ground"))

\* AnomalyDetector.check_multiple_launch
check_multiple_launch(cur_states, prev_states) ==
    LET launches == SelectSeq(cur_states,
                       LAMBDA st : IsLaunch(st, prev_states[st.icao24]))
        timestamps == { PyOr(Get(launches[i], "last_contact"),
                             Get(launches[i], "timestamp")) : i \in 1..Len(launches) }
    IN  IF /\ Len(launches) >= 3
           /\ Max(timestamps) - Min(timestamps) <= multi_launch_window_seconds
        THEN << [icao24 |-> NULL, type |-> "multiple_launch", severity |-> "CRITICAL",
                 aircraft |-> [ i \in 1..Len(launches) |-> launches[i].icao24 ],
                 hospital |-> FALSE] >>
        ELSE <<>>

RECURSIVE per_aircraft(_, _)
\* AnomalyDetector.detect_anomalies: the loop over cur_states
per_aircraft(states, histories) ==
    IF states = <<>> THEN <<>>
    ELSE LET current_state == Head(states)
             icao24  == current_state.icao24
             history == histories[icao24]
         IN  check_speed_anomaly(icao24, current_state, history)
             \o check_altitude_anomaly(icao24, current_state, history)
             \o emergency_squawk(icao24, current_state)
             \o check_flight_pattern(icao24, current_state, history)
             \o per_aircraft(Tail(states), histories)

\* AnomalyDetector.detect_anomalies
AnomalyDetector_detect_anomalies(cur_states, prev_states, histories) ==
    per_aircraft(cur_states, histories)
        \o check_multiple_launch(cur_states, prev_states)

HasState(states, icao24) == \E i \in 1..Len(states) : states[i].icao24 = icao24

\* a filter that drops every rapid_descent near an airport
Suppressed_AnyRate(anomaly, cur_states) ==
    /\ anomaly.type = "rapid_descent"
    /\ anomaly.icao24 # NULL
    /\ HasState(cur_states, anomaly.icao24)
    /\ LET state == StateOf(cur_states, anomaly.icao24)
       IN  /\ state.latitude # None
           /\ state.longitude # None
           /\ is_near_airport(state.latitude, state.longitude, GEO_NEAR_AIRPORT_KM)

\* process_state_changes: the geo filter's "continue  # suppress"
Suppressed(anomaly, cur_states) ==
    /\ anomaly.type = "rapid_descent"
    /\ anomaly.icao24 # NULL
    /\ HasState(cur_states, anomaly.icao24)
    /\ LET state == StateOf(cur_states, anomaly.icao24)
           lat == Get(state, "latitude")
           lon == Get(state, "longitude")
           vr  == Get(state, "vertical_rate")
       IN  /\ lat # None
           /\ lon # None
           /\ vr # None
           /\ vr < 0
           /\ is_near_airport(lat, lon, GEO_NEAR_AIRPORT_KM)

\* process_state_changes: the hospital enrichment of one surviving anomaly
Enriched(anomaly, cur_states) ==
    IF /\ anomaly.icao24 # NULL
       /\ HasState(cur_states, anomaly.icao24)
       /\ StateOf(cur_states, anomaly.icao24).latitude # None
       /\ StateOf(cur_states, anomaly.icao24).longitude # None
    THEN [anomaly EXCEPT !.hospital = TRUE]
    ELSE anomaly

\* process_state_changes after the saves: geo filter, then enrichment
filter_and_enrich(detected, cur_states) ==
    LET filtered == SelectSeq(detected, LAMBDA a : ~Suppressed(a, cur_states))
    IN  [ i \in 1..Len(filtered) |-> Enriched(filtered[i], cur_states) ]

\* a log_anomaly that stores the hex of the first aircraft of a launch
LogRecord_FirstAircraft(anomaly) ==
    [icao24 |-> IF anomaly.aircraft # <<>> THEN anomaly.aircraft[1] ELSE anomaly.icao24,
     anomaly_type |-> anomaly.type, severity |-> anomaly.severity]

\* handle_anomalies -> StateTracker.log_anomaly: the anomaly_log row
LogRecord(anomaly) ==
    [icao24 |-> IF anomaly.icao24 # NULL THEN Upper(anomaly.icao24) ELSE NULL,
     anomaly_type |-> anomaly.type, severity |-> anomaly.severity]

(* inputs of the data path *)
\* a state vector of the provider with nothing but the hex and last_contact
RawState(hex, t) ==
    [ icao24 |-> hex, last_contact |-> t, longitude |-> None, latitude |-> None,
      baro_altitude |-> None, on_ground |-> 0, velocity |-> None, true_track |-> None,
      vertical_rate |-> None, geo_altitude |-> None, squawk |-> NULL ]

\* what an earlier tick made of such a vector
PastState(hex, t) == parse_state(RawState(hex, t), t)

\* histories are read newest first and hold one row per timestamp; the
\* k-th newest row of a regular history is 10 k seconds old
Histories(hex, n, Fields) ==
    { [ i \in 1..n |-> [ k \in DOMAIN PastState(hex, 0) |->
                           IF k \in DOMAIN f[i] THEN f[i][k]
                           ELSE PastState(hex, 100 - 10 * i)[k] ] ] :
         f \in [ 1..n -> Fields ] }

HistoriesUpTo(hex, n, Fields) == UNION { Histories(hex, m, Fields) : m \in 0..n }

\* one aircraft losing height, near or far from the airport; rows 20, 30
\* and 31 seconds old
AltitudeTimes ==
    { <<>>, << 80 >>, << 70 >>, << 69 >>, << 80, 70 >>, << 80, 69 >>, << 70, 69 >>,
      << 80, 70, 69 >> }

AltitudeHistories ==
    UNION { { [ i \in 1..Len(ts) |->
                 [PastState("a1", ts[i]) EXCEPT !.baro_altitude = f[i]] ] :
              f \in [ 1..Len(ts) -> {None, 1100, 1200} ] } :
            ts \in { x \in AltitudeTimes : Len(x) <= MaxHistory } }

AltitudeInputs ==
    { [raw  |-> << [RawState("a1", 100) EXCEPT !.baro_altitude = b, !.geo_altitude = g,
                       !.vertical_rate = vr, !.latitude = la, !.longitude = lo] >>,
       past |-> [NoPast EXCEPT !["A1"] = h]] :
         b \in {None, 0, 800}, g \in {None, 900}, vr \in {None, -12, 0, 11},
         la \in {None, 5, 6}, lo \in {None, 0}, h \in AltitudeHistories }

\* one aircraft at some speed, with slower or unknown speeds behind it
SpeedInputs ==
    { [raw  |-> << [RawState("b2", 100) EXCEPT !.velocity = v] >>,
       past |-> [NoPast EXCEPT !["B2"] = h]] :
         v \in {None, 0, 20, 40, 80},
         h \in HistoriesUpTo("b2", MaxHistory, { [velocity |-> None], [velocity |-> 20] }) }

\* squawk codes, on roster and off roster
SquawkInputs ==
    { [raw  |-> << [RawState(hex, 100) EXCEPT !.squawk = sq] >>, past |-> NoPast] :
         hex \in {"a1", "c3", NULL}, sq \in {NULL, "7500", "7600", "7700", "1200"} }

\* one aircraft turning or hovering
PatternInputs ==
    { [raw  |-> << RawState("d4", 100) >>, past |-> [NoPast EXCEPT !["D4"] = h]] :
         h \in HistoriesUpTo("d4", MaxHistory,
                  { [true_track |-> 10, baro_altitude |-> 2000, velocity |-> 5],
                    [true_track |-> 110, baro_altitude |-> 2000, velocity |-> 5],
                    [true_track |-> 350], [true_track |-> None] }) }

\* per aircraft of the roster: absent, or on the ground / airborne before
\* and now, last heard at one of three times
LaunchCases ==
    { [here |-> FALSE, prev |-> 0, og |-> 0, t |-> 100] }
      \cup { [here |-> TRUE, prev |-> 1, og |-> 0, t |-> t] : t \in {100, 400, 401} }
      \cup { [here |-> TRUE, prev |-> pv, og |-> 0, t |-> 100] : pv \in {None, 0} }
      \cup { [here |-> TRUE, prev |-> 1, og |-> 1, t |-> 100] }

LaunchRaw(hexes, c) ==
    SelectSeq([ i \in 1..Len(hexes) |->
                  [RawState(hexes[i], c[hexes[i]].t) EXCEPT !.on_ground = c[hexes[i]].og,
                      !.velocity = IF c[hexes[i]].here THEN 1 ELSE None] ],
              LAMBDA st : st.velocity # None)

LaunchInputs ==
    { [raw  |-> LaunchRaw(<< "a1", "b2", "d4", "e5" >>, c),
       past |-> [ h \in mode_s_set |->
                    LET k == CHOOSE x \in {"a1", "b2", "d4", "e5"} : Upper(x) = h
                    IN  IF c[k].prev = None THEN <<>>
                        ELSE << [PastState(k, 90) EXCEPT !.on_ground = IfTruthy(c[k].prev)] >> ]] :
         c \in [ {"a1", "b2", "d4", "e5"} -> LaunchCases ] }

DetInputs == AltitudeInputs \cup SpeedInputs \cup SquawkInputs
                \cup PatternInputs \cup LaunchInputs

\* run_monitoring_loop: current_states = self.poll_aircraft_states()
DetPoll ==
    /\ d_pc = "poll"
    /\ d_current' = ems_states(d_current, 100, <<>>)
    /\ d_pc' = "read"
    /\ UNCHANGED << loopVars, feed, polled, clientVars, authVars, restVars, sleep_left, d_form, d_past,
                    d_previous, d_history, d_anoms, d_out, d_log >>

\* previous_states and state_history: rows of the State Store, or the
\* state dicts a caller of process_state_changes holds
DetRead ==
    /\ d_pc = "read"
    /\ d_history' = [ h \in mode_s_set |->
                        IF ~HasState(d_current, h) THEN <<>>
                        ELSE IF d_form = "store"
                        THEN [ i \in 1..Len(d_past[h]) |->
                                 snapshot_row(d_past[h][i], d_past[h][i].timestamp) ]
                        ELSE d_past[h] ]
    /\ d_previous' = [ h \in mode_s_set |->
                         IF d_past[h] = <<>> THEN <<>>
                         ELSE IF d_form = "store"
                         THEN << snapshot_row(d_past[h][1], d_past[h][1].timestamp) >>
                         ELSE << d_past[h][1] >> ]
    /\ d_pc' = "detect"
    /\ UNCHANGED << loopVars, feed, polled, clientVars, authVars, restVars, sleep_left, d_form, d_past,
                    d_current, d_anoms, d_out, d_log >>

\* process_state_changes: self.anomaly_detector.detect_anomalies(...)
DetDetect ==
    /\ d_pc = "detect"
    /\ d_anoms' = AnomalyDetector_detect_anomalies(d_current, d_previous, d_history)
    /\ d_pc' = "filter"
    /\ UNCHANGED << loopVars, feed, polled, clientVars, authVars, restVars, sleep_left, d_form, d_past,
                    d_current, d_previous, d_history, d_out, d_log >>

\* process_state_changes: geo filter and enrichment, return anomalies
DetFilter ==
    /\ d_pc = "filter"
    /\ d_out' = filter_and_enrich(d_anoms, d_current)
    /\ d_pc' = "handle"
    /\ UNCHANGED << loopVars, feed, polled, clientVars, authVars, restVars, sleep_left, d_form, d_past,
                    d_current, d_previous, d_history, d_anoms, d_log >>

\* handle_anomalies: log_anomaly for every anomaly
DetHandle ==
    /\ d_pc = "handle"
    /\ d_log' = [ i \in 1..Len(d_out) |-> LogRecord(d_out[i]) ]
    /\ d_pc' = "done"
    /\ UNCHANGED << loopVars, feed, polled, clientVars, authVars, restVars, sleep_left, d_form, d_past,
                    d_current, d_previous, d_history, d_anoms, d_out >>

\* one tick's data path on every input, history in both forms
InitDetect ==
    /\ LoopFrozen
    /\ wall = 0
    /\ ClientInit
    /\ ThrIdle
    /\ GeoIdle
    /\ KeyIdle
    /\ BBoxIdle
    /\ cache_dir = FALSE
    /\ use_oauth2 = FALSE
    /\ max_calls = 1
    /\ period = 1
    /\ d_pc = "poll"
    /\ d_form \in {"store", "dict"}
    /\ \E inp \in DetInputs :
          /\ d_current = inp.raw
          /\ d_past = inp.past
    /\ d_previous = NoPast
    /\ d_history = NoPast
    /\ d_anoms = <<>>
    /\ d_out = <<>>
    /\ d_log = <<>>

NextDetect == DetPoll \/ DetRead \/ DetDetect \/ DetFilter \/ DetHandle

SpecDetect == InitDetect /\ [][NextDetect]_vars

(* -------------- the rate limiter under concurrent callers ------------- *)
\* what the wrapper does not touch
thrFrame == << loopVars, feed, polled, sideVars, keyVars, geoVars, raised_at, bbVars, tick_secs, max_calls, period, cpc, rl_now,
               cache_dir, cache, req, httpVars, result, slept_for, hit0 >>

\* wrapper: now = time.time()
ThrEnter(th) ==
    /\ t_pc[th] = "out"
    /\ Len(admitted) < MaxRequests
    /\ t_now' = [t_now EXCEPT ![th] = now]
    /\ t_pc' = [t_pc EXCEPT ![th] = "trim"]
    /\ UNCHANGED << calls, admitted, now, t_new, t_wake >>
    /\ UNCHANGED thrFrame

\* wrapper: the list comprehension over self.calls builds a new list
ThrTrim(th) ==
    /\ t_pc[th] \in {"trim", "retrim"}
    /\ t_new' = [t_new EXCEPT ![th] = Trim(calls, t_now[th], period)]
    /\ t_pc' = [t_pc EXCEPT ![th] = IF t_pc[th] = "trim" THEN "store" ELSE "restore"]
    /\ UNCHANGED << calls, admitted, now, t_now, t_wake >>
    /\ UNCHANGED thrFrame

\* wrapper: self.calls = <the new list>
ThrStore(th) ==
    /\ t_pc[th] \in {"store", "restore"}
    /\ calls' = t_new[th]
    /\ t_pc' = [t_pc EXCEPT ![th] = IF t_pc[th] = "store" THEN "check" ELSE "append"]
    /\ UNCHANGED << admitted, now, t_now, t_new, t_wake >>
    /\ UNCHANGED thrFrame

\* wrapper: if len(self.calls) >= self.max_calls: sleep_time = ...
ThrCheck(th) ==
    /\ t_pc[th] = "check"
    /\ IF Len(calls) >= max_calls /\ SleepTime(calls, t_now[th], period) > 0
       THEN /\ t_wake' = [t_wake EXCEPT ![th] = now + SleepTime(calls, t_now[th], period)]
            /\ t_pc' = [t_pc EXCEPT ![th] = "sleep"]
       ELSE /\ t_pc' = [t_pc EXCEPT ![th] = "append"]
            /\ UNCHANGED t_wake
    /\ UNCHANGED << calls, admitted, now, t_now, t_new >>
    /\ UNCHANGED thrFrame

\* wrapper: time.sleep(sleep_time) returns; now = time.time()
ThrWake(th) ==
    /\ t_pc[th] = "sleep"
    /\ now >= t_wake[th]
    /\ t_now' = [t_now EXCEPT ![th] = now]
    /\ t_pc' = [t_pc EXCEPT ![th] = "retrim"]
    /\ UNCHANGED << calls, admitted, now, t_new, t_wake >>
    /\ UNCHANGED thrFrame

\* wrapper: self.calls.append(now); return func(...)
ThrAppend(th) ==
    /\ t_pc[th] = "append"
    /\ calls' = Append(calls, t_now[th])
    /\ admitted' = Append(admitted, t_now[th])
    /\ t_pc' = [t_pc EXCEPT ![th] = "out"]
    /\ UNCHANGED << now, t_now, t_new, t_wake >>
    /\ UNCHANGED thrFrame

\* time passes
ThrAdvance ==
    /\ now < MaxTime
    /\ now' = now + 1
    /\ UNCHANGED << calls, admitted, thrVars >>
    /\ UNCHANGED thrFrame

NextThreads ==
    \/ \E th \in Threads :
          \/ ThrEnter(th) \/ ThrTrim(th) \/ ThrStore(th)
          \/ ThrCheck(th) \/ ThrWake(th) \/ ThrAppend(th)
    \/ ThrAdvance

\* concurrent rate-limited requests of a client without cache_dir
SpecThreads == InitRL /\ [][NextThreads]_vars

(* ------------------- the State Store under direct calls --------------- *)
\* arguments of save_state_snapshot: hex in either case, timestamp, state
SaveArgs ==
    { [icao24 |-> h, timestamp |-> t, state |-> [squawk |-> sq]] :
         h \in {"a1", "A1", "B2"}, t \in 0..MaxWall, sq \in {NULL, "7700"} }

\* StateTracker.save_state_snapshot(icao24, state, timestamp)
StoreSave ==
    /\ next_id <= MaxSaves
    /\ \E a \in SaveArgs :
          aircraft_history' = save_state_snapshot(aircraft_history, next_id,
                                                  a.icao24, a.state, a.timestamp)
    /\ next_id' = next_id + 1
    /\ UNCHANGED << clientVars, feed, auxVars, polled, mode, svc, ctlVars, poll_count, pc, wall,
                    tickVars, anomaly_log, jsonl, notified, geocoded, ghostTick >>

InitStore ==
    /\ LoopFrozen
    /\ wall = 0
    /\ ClientInit
    /\ ThrIdle
    /\ GeoIdle
    /\ KeyIdle
    /\ BBoxIdle
    /\ cache_dir = FALSE
    /\ use_oauth2 = FALSE
    /\ DetIdle
    /\ max_calls = 1
    /\ period = 1

SpecStore == InitStore /\ [][StoreSave]_vars

(* ------------- the reverse geocoder under concurrent callers ---------- *)
geoFrame == << loopVars, feed, polled, sideVars, keyVars, thrVars, raised_at, bbVars, tick_secs, max_calls, period, calls,
               admitted, cpc, rl_now, cache_dir, cache, req, httpVars, result,
               slept_for, hit0 >>

\* get_location_name_from_coordinates / get_county_from_coordinates:
\* current_time = time.time(); time_since_last; sleep_time
GeoTest(th) ==
    /\ g_pc[th] = "out"
    /\ Len(g_starts) < MaxRequests
    /\ LET time_since_last == now - _last_geocode_time
       IN  IF time_since_last < OneSecond
           THEN /\ g_wake' = [g_wake EXCEPT ![th] =
                                  now + Min({OneSecond - time_since_last, OneSecond})]
                /\ g_pc' = [g_pc EXCEPT ![th] = "sleep"]
           ELSE /\ g_pc' = [g_pc EXCEPT ![th] = "stamp"]
                /\ UNCHANGED g_wake
    /\ UNCHANGED << now, _last_geocode_time, g_starts >>
    /\ UNCHANGED geoFrame

\* time.sleep(sleep_time) returns
GeoWake(th) ==
    /\ g_pc[th] = "sleep"
    /\ now >= g_wake[th]
    /\ g_pc' = [g_pc EXCEPT ![th] = "stamp"]
    /\ UNCHANGED << now, _last_geocode_time, g_wake, g_starts >>
    /\ UNCHANGED geoFrame

\* _last_geocode_time = time.time(); requests.get(url, ...)
GeoRequest(th) ==
    /\ g_pc[th] = "stamp"
    /\ _last_geocode_time' = now
    /\ g_starts' = Append(g_starts, now)
    /\ g_pc' = [g_pc EXCEPT ![th] = "out"]
    /\ UNCHANGED << now, g_wake >>
    /\ UNCHANGED geoFrame

\* half a second passes
GeoAdvance ==
    /\ now + 5 <= 10 * MaxTime
    /\ now' = now + 5
    /\ UNCHANGED geoVars
    /\ UNCHANGED geoFrame

NextGeo ==
    \/ \E th \in Threads : GeoTest(th) \/ GeoWake(th) \/ GeoRequest(th)
    \/ GeoAdvance

\* lookups from two threads of one process
SpecGeo == InitStore /\ [][NextGeo]_vars

(* ------------------- region / state selection ------------------------- *)
\* regions.US_REGIONS and regions.US_STATES
US_REGIONS == {"west", "south"}
US_STATES == {"TX", "CA"}

\* region and states as a caller may pass them
RegionArgs == {NULL, "west", "south", "mars"}
StatesArgs ==
    { NoStates } \cup
    { [given |-> TRUE, codes |-> c] :
         c \in { <<>>, << "TX" >>, << "ca" >>, << "TX", "CA" >>, << "ZZ" >> } }

UpperCode(c) == IF c = "ca" THEN "CA" ELSE c

\* Region.bbox
region_bbox_of(region) == [of |-> "region", region |-> region, codes |-> {}]

\* regions.get_states_bbox: the box around the states that have one
get_states_bbox(codes) ==
    LET known == { UpperCode(codes[i]) : i \in 1..Len(codes) } \cap US_STATES
    IN  IF known = {} THEN NoBBox
        ELSE [of |-> "states", region |-> NULL, codes |-> known]

bbFrame == << loopVars, feed, polled, clientVars, sideVars, concVars, raised_at, tick_secs,
             keyVars >>

\* MonitorWorker.run: states_param, skip_interactive=True
WorkerRun ==
    /\ b_pc = "worker"
    /\ b_args' = [b_args EXCEPT !.states = IF b_args.states.given THEN b_args.states
                                           ELSE [given |-> TRUE, codes |-> <<>>],
                                !.skip = TRUE]
    /\ b_pc' = "init"
    /\ UNCHANGED << b_self, b_bbox >>
    /\ UNCHANGED bbFrame

\* what select_region_or_state can hand back
Selections ==
    { [region |-> NULL, states |-> NoStates] }
      \cup { [region |-> r, states |-> NoStates] : r \in US_REGIONS }
      \cup { [region |-> NULL, states |-> [given |-> TRUE, codes |-> << c >>]] :
                c \in US_STATES }

\* self.states and self.state_bbox for a non-empty list of codes
StatesSelected(codes) ==
    [NoSelection EXCEPT
        !.states = [given |-> TRUE, codes |-> [ i \in 1..Len(codes) |-> UpperCode(codes[i]) ]],
        !.state_bbox = get_states_bbox(codes)]

\* self.region and self.region_bbox
RegionSelected(region) ==
    [NoSelection EXCEPT !.region = region, !.region_bbox = region_bbox_of(region)]

\* MonitorService.__init__: "Select region or state"
Construct ==
    /\ b_pc = "init"
    /\ IF b_args.states.given
       THEN IF Len(b_args.states.codes) = 0
            THEN b_self' = NoSelection /\ b_pc' = "poll"
            ELSE IF \E i \in 1..Len(b_args.states.codes) :
                       UpperCode(b_args.states.codes[i]) \notin US_STATES
            THEN b_self' = NoSelection /\ b_pc' = "raised"
            ELSE b_self' = StatesSelected(b_args.states.codes) /\ b_pc' = "poll"
       ELSE IF b_args.region # NULL
       THEN IF b_args.region \notin US_REGIONS
            THEN b_self' = NoSelection /\ b_pc' = "raised"
            ELSE b_self' = RegionSelected(b_args.region) /\ b_pc' = "poll"
       ELSE IF b_args.skip
       THEN b_self' = NoSelection /\ b_pc' = "poll"
       ELSE \E sel \in Selections :
               /\ b_self' = IF sel.states.given THEN StatesSelected(sel.states.codes)
                            ELSE IF sel.region # NULL THEN RegionSelected(sel.region)
                            ELSE NoSelection
               /\ b_pc' = "poll"
    /\ UNCHANGED << b_args, b_bbox >>
    /\ UNCHANGED bbFrame

\* poll_aircraft_states: bbox = self.state_bbox if self.states else self.region_bbox
PollBBox ==
    /\ b_pc = "poll"
    /\ b_bbox' = IF b_self.states.given /\ b_self.states.codes # <<>>
                 THEN b_self.state_bbox ELSE b_self.region_bbox
    /\ b_pc' = "done"
    /\ UNCHANGED << b_args, b_self >>
    /\ UNCHANGED bbFrame

NextBBox == WorkerRun \/ Construct \/ PollBBox

\* MonitorService built by run_monitor.py or any direct caller ("direct"),
\* or by MonitorWorker.run ("gui"), for every region and states
InitBBox ==
    /\ LoopFrozen
    /\ wall = 0
    /\ ClientInit
    /\ ThrIdle
    /\ GeoIdle
    /\ KeyIdle
    /\ cache_dir = FALSE
    /\ use_oauth2 = FALSE
    /\ DetIdle
    /\ max_calls = 1
    /\ period = 1
    /\ \E entry \in {"direct", "gui"}, region \in RegionArgs, states \in StatesArgs,
          skip \in BOOLEAN :
          /\ entry = "gui" => ~skip
          /\ b_args = [entry |-> entry, region |-> region, states |-> states, skip |-> skip]
          /\ b_pc = IF entry = "gui" THEN "worker" ELSE "init"
    /\ b_self = NoSelection
    /\ b_bbox = NoBBox

SpecBBox == InitBBox /\ [][NextBBox]_vars

(* ---------------------- cache keys of two requests -------------------- *)
\* a string value longer than the key can hold, ending in c
Long(c) == [ i \in 1..KeyLimit |-> "a" ] \o << c >>

\* params dicts in insertion order: names "a" and "b"; numbers and strings
ParamValues ==
    { [str |-> FALSE, chars |-> << "1" >>], [str |-> FALSE, chars |-> << "5" >>],
      [str |-> FALSE, chars |-> << "1", ".", "5" >>],
      [str |-> TRUE, chars |-> << "1", ",", "5" >>],
      [str |-> TRUE, chars |-> << "1", ".", "5" >>],
      [str |-> TRUE, chars |-> Long("1")], [str |-> TRUE, chars |-> Long("5")] }

ParamDicts ==
    { <<>> }
      \cup { << [name |-> "a", value |-> v] >> : v \in ParamValues }
      \cup { << [name |-> "a", value |-> [str |-> FALSE, chars |-> << "1" >>]],
               [name |-> "b", value |-> [str |-> FALSE, chars |-> << "5" >>]] >>,
             << [name |-> "b", value |-> [str |-> FALSE, chars |-> << "5" >>]],
               [name |-> "a", value |-> [str |-> FALSE, chars |-> << "1" >>]] >> }

\* "states/all" and "tracks/all", shortened
Endpoints == { << "s", "/", "a" >>, << "t", "/", "a" >> }

KeyRequests == { [endpoint |-> e, params |-> d] : e \in Endpoints, d \in ParamDicts }

Quote(chars) == << "\"" >> \o chars \o << "\"" >>

\* sort_keys=True for the names "a" < "b"
SortKeys(params) ==
    IF Len(params) = 2 /\ params[1].name = "b" THEN << params[2], params[1] >> ELSE params

RECURSIVE DumpItems(_)
DumpItems(params) ==
    IF params = <<>> THEN <<>>
    ELSE LET p    == Head(params)
             item == Quote(<< p.name >>) \o << ":", " " >>
                        \o (IF p.value.str THEN Quote(p.value.chars) ELSE p.value.chars)
         IN  IF Len(params) = 1 THEN item
             ELSE item \o << ",", " " >> \o DumpItems(Tail(params))

\* json.dumps(params, sort_keys=True)
json_dumps(params) == << "{" >> \o DumpItems(SortKeys(params)) \o << "}" >>

\* _get_cache_key(endpoint, params)
CacheKeyOf(r) == _get_cache_key([endpoint |-> r.endpoint, params |-> json_dumps(r.params)])

keyFrame == << loopVars, feed, polled, clientVars, sideVars, concVars, raised_at, bbVars,
               tick_secs >>

\* _do_request: self._cache_response(cache_key, data)
KeyWrite ==
    /\ k_pc = "write"
    /\ k_key' = CacheKeyOf(k_written)
    /\ k_pc' = "lookup"
    /\ UNCHANGED << k_written, k_asked, k_hit >>
    /\ UNCHANGED keyFrame

\* _make_request: cached = self._get_cached_response(cache_key, ...),
\* within the TTL of the file
KeyLookup ==
    /\ k_pc = "lookup"
    /\ k_hit' = (CacheKeyOf(k_asked) = k_key)
    /\ k_pc' = "done"
    /\ UNCHANGED << k_written, k_asked, k_key >>
    /\ UNCHANGED keyFrame

NextKey == KeyWrite \/ KeyLookup

\* a response cached for one request, then any request made
InitKey ==
    /\ LoopFrozen
    /\ wall = 0
    /\ ClientInit
    /\ ThrIdle
    /\ GeoIdle
    /\ BBoxIdle
    /\ cache_dir = TRUE
    /\ use_oauth2 = FALSE
    /\ DetIdle
    /\ max_calls = 1
    /\ period = 1
    /\ k_pc = "write"
    /\ k_written \in KeyRequests
    /\ k_asked \in KeyRequests
    /\ k_key = <<>>
    /\ k_hit = FALSE

SpecKey == InitKey /\ [][NextKey]_vars

(* ------------------------------ claims -------------------------------- *)
Range(s) == { s[i] : i \in 1..Len(s) }

\* C1: after pause() and until resume(), the loop starts no new tick
\* (poll_count is not incremented), under every interleaving of the
\* calls with the loop's steps and when pause() precedes the loop's start.
C1_NoTickWhilePaused ==
    [][pauseReq => poll_count' = poll_count]_vars

\* C2: once stop() has been called, at any point relative to the loop,
\* the monitor starts no further tick.
C2_NoTickAfterStop ==
    [][stopCalled => poll_count' = poll_count]_vars

\* C3: in every tick the previous-state read and every history read
\* complete before the first save_state_snapshot, and every save completes
\* before detect_anomalies; previous_states and state_history hold no row
\* written by the same tick.
C3_ReadsBeforeSavesBeforeDetect ==
    /\ pc \in {"prev", "hist"} => next_id = tick_id0
    /\ pc = "save" => Len(state_history) = Len(current_states)
    /\ \A r \in previous_states : r.id < tick_id0
    /\ \A i \in 1..Len(state_history) :
          \A j \in 1..Len(state_history[i]) : state_history[i][j].id < tick_id0
    /\ (pc = "detect" \/ anomalies # <<>>) =>
          \A i \in 1..Len(current_states) :
             \E r \in aircraft_history :
                /\ r.id >= tick_id0
                /\ r.icao24 = current_states[i].icao24
                /\ r.timestamp = current_timestamp

\* a second tick about to detect, with rows of the first tick read back
C3_Witness ==
    /\ pc = "detect"
    /\ Len(current_states) = 2
    /\ previous_states # {}
    /\ Len(state_history[1]) >= 1
    /\ next_id = tick_id0 + 2

\* C4: an anomaly is notified (console/signal or JSONL line) only after
\* log_anomaly has inserted it into anomaly_log.
C4_LogBeforeNotify ==
    /\ Len(notified) <= Len(anomaly_log)
    /\ Range(notified) \subseteq Range(anomaly_log)
    /\ Range(jsonl) \subseteq Range(anomaly_log)
    /\ pc = "h_notify" =>
          /\ anomaly_log # <<>>
          /\ anomaly_log[Len(anomaly_log)] = anomalies[idx]

\* two anomalies notified, one of them with its JSONL line
C4_Witness ==
    /\ Len(notified) >= 2
    /\ Len(jsonl) = 1

\* C5: an exception other than KeyboardInterrupt raised by a step of a
\* tick is caught at the tick boundary: the loop is left only by
\* KeyboardInterrupt, running stays true, and the except clause is followed
\* by the inter-tick sleep and the next pass of the loop.
C5_TickErrorsCaught ==
    [][ ~KeyboardInterrupt =>
           /\ pc \in RaisingPcs \cup {"except", "sleepcheck", "sleep"} => pc' # "done"
           /\ pc \in RaisingPcs \cup {"except", "sleepcheck", "sleep"} => running /\ running'
           /\ pc = "except" => pc' = "sleepcheck"
           /\ pc = "sleepcheck" => pc' = "sleep"
           /\ pc = "sleep" => pc' = "loop"
           /\ pc = "loop" /\ poll_count > 0 => pc' = "pausecheck"
           /\ pc = "pausecheck" /\ poll_count > 0 => pc' = "runcheck"
           /\ pc = "runcheck" /\ poll_count > 0 => pc' = "incr" ]_vars

\* the except clause entered after the tick had saved a snapshot
C5_Witness ==
    /\ pc = "except"
    /\ running
    /\ next_id > tick_id0

\* C6: the record of an anomaly is written (log_anomaly) before any
\* best-effort enrichment (the reverse-geocoder lookup) is attempted for it.
C6_RecordBeforeEnrichment ==
    geocoded \subseteq Range(anomaly_log)

CurrentHexes == { current_states[i].icao24 : i \in 1..Len(current_states) }

PolledHexes ==
    { Upper(polled.states[i].hex) :
         i \in { j \in 1..Len(polled.states) : polled.states[j].hex # NULL } }

\* C7: current_states holds exactly the upper-cased provider hexes that are
\* in the roster; after the saves of a tick the store holds exactly one
\* record (hex, T) per hex of current_states, T shared; no record is written
\* for a hex outside the roster and no earlier (hex, timestamp) is removed.
C7_OneSnapshotPerRosterHex ==
    /\ pc = "prev" =>
          /\ CurrentHexes = PolledHexes \cap mode_s_set
          /\ Len(current_states) = Cardinality(CurrentHexes)
    /\ pc = "detect" =>
          /\ \A h \in CurrentHexes :
                Cardinality({ r \in aircraft_history :
                                 r.icao24 = h /\ r.timestamp = current_timestamp }) = 1
          /\ Keys({ r \in aircraft_history : r.id >= tick_id0 })
                = { << h, current_timestamp >> : h \in CurrentHexes }
          /\ next_id - tick_id0 = Cardinality(CurrentHexes)
          /\ Keys(aircraft_history)
                = tick_keys0 \cup { << h, current_timestamp >> : h \in CurrentHexes }
    /\ \A r \in aircraft_history : r.icao24 \in mode_s_set
    /\ tick_keys0 \subseteq Keys(aircraft_history)

\* the saves of a second tick done, two roster aircraft in current_states
C7_Witness ==
    /\ pc = "detect"
    /\ poll_count = 2
    /\ Cardinality(CurrentHexes) = 2
    /\ tick_keys0 # {}

\* admissions inside the half-open window [t, t + period)
InWindow(t) == { i \in 1..Len(admitted) : t <= admitted[i] /\ admitted[i] < t + period }

\* C8: for sequential rate-limited requests, every half-open window of
\* length period holds at most max_calls admissions, and a call that waited
\* is admitted only when the oldest admission it waited for has aged out.
C8_WindowBound ==
    /\ \A t \in 0..MaxTime : Cardinality(InWindow(t)) <= max_calls
    /\ cpc = "rl_append" => Len(calls) < max_calls
    /\ (cpc = "rl_append" /\ slept_for # NotSlept) => rl_now - slept_for >= period

\* a request admitted after the wrapper had to wait
C8_Witness ==
    /\ cpc = "func"
    /\ slept_for # NotSlept
    /\ Len(admitted) >= 2

\* C9: a _make_request that finds a cache entry younger than the TTL returns
\* that body, makes no HTTP request and leaves the rate limiter's calls
\* unchanged, whatever the body, an empty JSON object or list included.
C9_FreshEntryServedFromCache ==
    [][ (cpc = "idle" /\ cpc' # "idle" /\ hit0' # NULL) =>
           /\ cpc' = "return"
           /\ result'.kind = "cached"
           /\ result'.body = hit0'
           /\ calls' = calls
           /\ admitted' = admitted ]_vars

C11_Unauthorized401NotRetried ==
    [][ /\ (http_attempts' = http_attempts + 1 /\ last_status' = 401) =>
              /\ cpc' = "return"
              /\ result'.kind = "auth_failed"
              /\ cache' = cache
        /\ (http_attempts' = http_attempts + 1 /\ http_attempts >= 1) =>
              last_status # 401
        /\ (cpc = "return" /\ last_status = 401 /\ http_attempts >= 1) =>
              /\ cache' = cache
              /\ cpc' = "idle" ]_vars

\* a GET answered 401 at once, with a body of an earlier GET in the cache
C11_Witness ==
    /\ cpc = "return"
    /\ http_attempts = 1
    /\ last_status = 401
    /\ result.kind = "auth_failed"
    /\ \E k \in CacheKeys : cache[k].exists

\* C12: with OAuth2 credentials configured, no provider GET is sent without
\* a bearer token, a failed token request ends the operation in the
\* authentication error, and a cached token is reused only while the
\* current time is earlier than (time of issue + expires_in - 60 s).
C12_NoGetWithoutBearer ==
    [][ /\ (use_oauth2 /\ http_attempts' = http_attempts + 1) => bearer # NULL
        /\ (cpc = "token" /\ bearer' = NULL) =>
              /\ cpc' = "return"
              /\ result'.kind = "auth_failed"
        /\ (cpc = "token" /\ token_posts' = token_posts) =>
              now < token_issued + token_ttl - EarlyRefresh ]_vars

\* the token reuse rule of C12 alone: a step of the header block that sends
\* no token request hands out the cached token, and only before
\* (time of issue + expires_in - 60 s)
C12_ReuseOnlyWhileFresh ==
    [][ (cpc = "token" /\ token_posts' = token_posts) =>
           /\ bearer' = access_token
           /\ access_token # NULL
           /\ now < token_issued + token_ttl - EarlyRefresh ]_vars

\* a GET leaves without Authorization header after a failed token request
C12_AnonymousGet ==
    /\ use_oauth2
    /\ http_attempts >= 1
    /\ bearer = NULL

\* a token reused one second after it was issued
C12_ReuseWitness ==
    /\ cpc = "func"
    /\ token_posts = 1
    /\ bearer = "tok"
    /\ now > token_issued

(* claims about the data path *)
\* the altitude a history record holds: the store's column, or the state's
\* barometric / geometric altitude
StoredAltitude(r) ==
    IF "altitude" \in DOMAIN r THEN r.altitude
    ELSE PyOr(Get(r, "baro_altitude"), Get(r, "geo_altitude"))

CurrentAltitude(st) == PyOr(Get(st, "baro_altitude"), Get(st, "geo_altitude"))

TimeOf(r) == PyOr(Get(r, "last_contact"), Get(r, "timestamp"))

\* the aircraft has lost more than rapid_descent_ft within the window
DescentDue(st, history) ==
    /\ CurrentAltitude(st) # None
    /\ \E j \in 1..Len(history) :
          /\ TimeOf(history[j]) >= TimeOf(st) - rapid_descent_window_seconds
          /\ TimeOf(history[j]) <= TimeOf(st)
          /\ StoredAltitude(history[j]) # None
          /\ (StoredAltitude(history[j]) - CurrentAltitude(st)) * FeetNum
                > rapid_descent_ft * FeetDen

\* the aircraft is within GEO_NEAR_AIRPORT_KM of an airport and descending
LandingLike(st) ==
    /\ st.latitude # None
    /\ st.longitude # None
    /\ st.vertical_rate # None
    /\ st.vertical_rate < 0
    /\ is_near_airport(st.latitude, st.longitude, GEO_NEAR_AIRPORT_KM)

Emitted(anoms, icao24, type) ==
    \E i \in 1..Len(anoms) : anoms[i].icao24 = icao24 /\ anoms[i].type = type

\* C13: when the history of an aircraft holds a record within
\* rapid_descent_window_seconds before the current state whose stored
\* altitude exceeds the current altitude by more than rapid_descent_ft
\* (metres converted to feet), detect_anomalies emits a CRITICAL
\* rapid_descent for it, and only the airport suppression drops it.
C13_RapidDescentEmitted ==
    \A i \in 1..Len(d_current) :
       (d_pc \in {"filter", "handle", "done"} /\ DescentDue(d_current[i], d_history[d_current[i].icao24])) =>
          /\ \E k \in 1..Len(d_anoms) :
                /\ d_anoms[k].icao24 = d_current[i].icao24
                /\ d_anoms[k].type = "rapid_descent"
                /\ d_anoms[k].severity = "CRITICAL"
          /\ (d_pc \in {"handle", "done"} /\ ~LandingLike(d_current[i])) =>
                Emitted(d_out, d_current[i].icao24, "rapid_descent")

\* the rule of C13 on histories passed as state dicts
C13_OnStateDicts ==
    d_form = "dict" => C13_RapidDescentEmitted

\* a tick over State Store rows: 1200 m twenty seconds ago, 800 m now, far
\* from the airport, and nothing detected
C13_MissedDescent ==
    /\ d_pc = "done"
    /\ d_form = "store"
    /\ Len(d_current) = 1
    /\ d_current[1].baro_altitude = 800
    /\ d_current[1].latitude = 6
    /\ d_current[1].longitude = 0
    /\ Len(d_history["A1"]) = 1
    /\ d_history["A1"][1].altitude = 1200
    /\ d_history["A1"][1].timestamp = 80
    /\ d_anoms = <<>>

\* the same descent seen through state dicts
C13_DictWitness ==
    /\ d_pc = "done"
    /\ d_form = "dict"
    /\ Len(d_current) = 1
    /\ d_current[1].baro_altitude = 800
    /\ d_current[1].latitude = 6
    /\ Emitted(d_out, "A1", "rapid_descent")

\* indices of the current states that left the ground since the previous state
Launches ==
    { i \in 1..Len(d_current) :
         /\ d_previous[d_current[i].icao24] # <<>>
         /\ IsTrue(d_previous[d_current[i].icao24][1].on_ground)
         /\ ~IsTrue(d_current[i].on_ground) }

LaunchTimes == { TimeOf(d_current[i]) : i \in Launches }

MultipleLaunches == SelectSeq(d_anoms, LAMBDA a : a.type = "multiple_launch")

\* C14: an aircraft counts as a launch only if its previous state has
\* on_ground true and its current state has not; without previous state it
\* never counts. With at least 3 launches whose timestamps span at most
\* multi_launch_window_seconds exactly one multiple_launch anomaly is
\* emitted, with icao24 null and the launched aircraft listed; otherwise
\* none; and no anomaly of a single aircraft is a launch anomaly.
C14_MultipleLaunch ==
    d_pc \in {"filter", "handle", "done"} =>
       /\ IF /\ Cardinality(Launches) >= 3
             /\ Max(LaunchTimes) - Min(LaunchTimes) <= multi_launch_window_seconds
          THEN /\ Len(MultipleLaunches) = 1
               /\ MultipleLaunches[1].icao24 = NULL
               /\ Len(MultipleLaunches[1].aircraft) = Cardinality(Launches)
               /\ Range(MultipleLaunches[1].aircraft)
                     = { d_current[i].icao24 : i \in Launches }
          ELSE MultipleLaunches = <<>>
       /\ \A k \in 1..Len(d_anoms) :
             d_anoms[k].icao24 # NULL =>
                /\ d_anoms[k].type # "multiple_launch"
                /\ d_anoms[k].aircraft = <<>>

\* four aircraft polled, three of them launched within the window, one
\* without previous state
C14_Witness ==
    /\ d_pc = "done"
    /\ Len(d_current) = 4
    /\ Cardinality(Launches) = 3
    /\ \E i \in 1..4 : d_previous[d_current[i].icao24] = <<>>
    /\ Max(LaunchTimes) - Min(LaunchTimes) = multi_launch_window_seconds
    /\ Len(d_out) = 1
    /\ d_out[1].type = "multiple_launch"

\* an anomaly without what the hospital enrichment adds to its details
Core(a) == [icao24 |-> a.icao24, type |-> a.type, severity |-> a.severity,
            aircraft |-> a.aircraft]

Cores(anoms) == [ i \in 1..Len(anoms) |-> Core(anoms[i]) ]

\* the anomaly is a rapid_descent of an aircraft that is landing-like now
DropAllowed(a) ==
    /\ a.type = "rapid_descent"
    /\ a.icao24 # NULL
    /\ HasState(d_current, a.icao24)
    /\ LandingLike(StateOf(d_current, a.icao24))

\* C15: process_state_changes drops an anomaly only if it is a
\* rapid_descent whose aircraft is now within GEO_NEAR_AIRPORT_KM of an
\* airport with a negative vertical_rate; a rapid_descent with
\* vertical_rate >= 0 or absent is never dropped; every other anomaly
\* passes, in order, with kind, severity and aircraft as detected.
C15_GeoFilterDropsOnlyLandings ==
    d_pc \in {"handle", "done"} =>
       Cores(d_out) = Cores(SelectSeq(d_anoms, LAMBDA a : ~DropAllowed(a)))

\* a climbing aircraft at the edge of the airport radius keeps both its
\* rapid_climb and its rapid_descent
C15_Witness ==
    /\ d_pc = "done"
    /\ Len(d_current) = 1
    /\ d_current[1].latitude = GEO_NEAR_AIRPORT_KM
    /\ d_current[1].longitude = 0
    /\ d_current[1].vertical_rate = 11
    /\ Emitted(d_anoms, "A1", "rapid_descent")
    /\ Emitted(d_out, "A1", "rapid_descent")
    /\ Emitted(d_out, "A1", "rapid_climb")

\* a descent near the airport is dropped, nothing else detected
C15_DroppedWitness ==
    /\ d_pc = "done"
    /\ Emitted(d_anoms, "A1", "rapid_descent")
    /\ d_out = <<>>

\* C16: every anomaly_log record whose kind is not multiple_launch has a
\* non-null hex24 that is a member of mode_s_set, and every multiple_launch
\* record has hex24 null.
C16_LoggedHexInRoster ==
    \A i \in 1..Len(d_log) :
       IF d_log[i].anomaly_type = "multiple_launch"
       THEN d_log[i].icao24 = NULL
       ELSE d_log[i].icao24 # NULL /\ d_log[i].icao24 \in mode_s_set

\* a multiple_launch logged for three roster aircraft
C16_Witness ==
    /\ d_pc = "done"
    /\ Len(d_log) = 1
    /\ d_log[1].anomaly_type = "multiple_launch"
    /\ Len(d_out[1].aircraft) = 3

\* an emergency squawk logged for a roster aircraft the provider named in
\* lower case
C16_SquawkWitness ==
    /\ d_pc = "done"
    /\ Len(d_log) = 1
    /\ d_log[1].icao24 = "A1"
    /\ d_log[1].anomaly_type = "emergency_squawk_hijack"

\* the kinds an anomaly can have, each with its severity
KindSeverity ==
    { << "high_speed", "HIGH" >>,
      << "sudden_speed_increase", "MEDIUM" >>,
      << "rapid_climb", "HIGH" >>,
      << "rapid_descent", "CRITICAL" >>,
      << "emergency_squawk_hijack", "CRITICAL" >>,
      << "emergency_squawk_radio_failure", "CRITICAL" >>,
      << "emergency_squawk_emergency", "CRITICAL" >>,
      << "erratic_heading", "MEDIUM" >>,
      << "hovering_high_altitude", "LOW" >>,
      << "multiple_launch", "CRITICAL" >> }

\* C17: every anomaly detect_anomalies emits, every anomaly
\* process_state_changes returns and every anomaly_log record has a
\* severity in {CRITICAL, HIGH, MEDIUM, LOW} and a kind in the closed set
\* of ten kinds, the severity being fixed per kind.
C17_ClosedKindsFixedSeverity ==
    /\ \A i \in 1..Len(d_anoms) :
          /\ << d_anoms[i].type, d_anoms[i].severity >> \in KindSeverity
          /\ d_anoms[i].severity \in {"CRITICAL", "HIGH", "MEDIUM", "LOW"}
    /\ \A i \in 1..Len(d_out) :
          << d_out[i].type, d_out[i].severity >> \in KindSeverity
    /\ \A i \in 1..Len(d_log) :
          /\ << d_log[i].anomaly_type, d_log[i].severity >> \in KindSeverity
          /\ d_log[i].severity \in {"CRITICAL", "HIGH", "MEDIUM", "LOW"}

\* two kinds of different severity logged in one tick
C17_Witness ==
    /\ d_pc = "done"
    /\ \E i, j \in 1..Len(d_log) :
          /\ d_log[i].anomaly_type = "high_speed"
          /\ d_log[i].severity = "HIGH"
          /\ d_log[j].anomaly_type = "sudden_speed_increase"
          /\ d_log[j].severity = "MEDIUM"

(* claims about the State Store *)
\* a history record as the spec knows it: key and fields, without the
\* AUTOINCREMENT id
Record(r) == [icao24 |-> r.icao24, timestamp |-> r.timestamp, squawk |-> r.squawk]

Records(table) == { Record(r) : r \in table }

\* what the history and latest-state queries show of a table
HistoryView(table) ==
    [ h \in {"a1", "B2"} |->
        LET history == get_aircraft_history(table, h)
        IN  [ i \in 1..Len(history) |-> Record(history[i]) ] ]

LatestView(table) == Records(get_all_latest_states(table))

SavedOnce(a)  == save_state_snapshot(aircraft_history, next_id, a.icao24, a.state, a.timestamp)

SavedTwice(a) == save_state_snapshot(SavedOnce(a), next_id + 1, a.icao24, a.state, a.timestamp)

\* C18: the store holds at most one history record per (upper-cased hex24,
\* timestamp); a save under an existing key replaces the record; and
\* saving twice with identical (hex24, timestamp, fields) leaves the same
\* history records, as the history and latest-state queries show them, as
\* saving once.
C18_UpsertIdempotent ==
    /\ \A r, q \in aircraft_history :
          /\ r.icao24 = Upper(r.icao24)
          /\ (r.icao24 = q.icao24 /\ r.timestamp = q.timestamp) => r = q
    /\ \A a \in SaveArgs :
          /\ \A r \in SavedOnce(a) :
                IF r.icao24 = Upper(a.icao24) /\ r.timestamp = a.timestamp
                THEN r.squawk = a.state.squawk
                ELSE r \in aircraft_history
          /\ \A r \in aircraft_history :
                (r.icao24 = Upper(a.icao24) /\ r.timestamp = a.timestamp) \/ r \in SavedOnce(a)
          /\ Cardinality({ r \in SavedOnce(a) :
                             r.icao24 = Upper(a.icao24) /\ r.timestamp = a.timestamp }) = 1
          /\ Records(SavedTwice(a)) = Records(SavedOnce(a))
          /\ HistoryView(SavedTwice(a)) = HistoryView(SavedOnce(a))
          /\ LatestView(SavedTwice(a)) = LatestView(SavedOnce(a))

\* a store in which a record was replaced (an id is gone) and which
\* holds two timestamps of A1 and a record of B2
C18_Witness ==
    /\ next_id = MaxSaves + 1
    /\ Cardinality(aircraft_history) = 3
    /\ \E r, q \in aircraft_history :
          r.icao24 = "A1" /\ q.icao24 = "A1" /\ r.timestamp < q.timestamp

\* C19: per hex24, the ingestion timestamps of the snapshots written by
\* successive ticks are non-decreasing, whatever the wall clock does
\* between ticks: a snapshot written later (larger id) never carries a
\* smaller timestamp than an earlier one of the same aircraft.
C19_TimestampsNonDecreasing ==
    \A r, q \in aircraft_history :
       (r.icao24 = q.icao24 /\ r.id < q.id) => r.timestamp <= q.timestamp

\* the second tick has written a snapshot of A1 stamped before the first
\* tick's, after the wall clock was set back during the sleep
C19_ClockSetBack ==
    /\ poll_count = 2
    /\ \E r, q \in aircraft_history :
          /\ r.icao24 = "A1"
          /\ q.icao24 = "A1"
          /\ r.id < q.id
          /\ q.timestamp < r.timestamp

\* C20: a stop() called while the loop is in its inter-tick sleep
\* interrupts the sleep: with stop() called, no further second of the
\* sleep is waited for.
C20_StopInterruptsSleep ==
    [][ (pc = "sleeping" /\ stopCalled /\ ~running) =>
           ~(pc' = "sleeping" /\ sleep_left' < sleep_left) ]_vars

\* admissions at time v among the entries of a list
CountOf(xs, v) == Cardinality({ i \in 1..Len(xs) : xs[i] = v })

\* every admission still inside the window is in the shared calls list
NoAdmissionLost ==
    \A v \in 0..MaxTime :
        now - v < period => CountOf(calls, v) >= CountOf(admitted, v)

\* C21: with two threads inside the rate-limited wrapper of one client,
\* every window of length period holds at most max_calls admissions and no
\* admission timestamp is lost from the shared calls list.
C21_ThreadSafe ==
    /\ \A t \in 0..MaxTime : Cardinality(InWindow(t)) <= max_calls
    /\ NoAdmissionLost

\* both threads passed the check before either appended: one more
\* admission than max_calls inside one window
C21_OverAdmitted ==
    /\ \E t \in 0..MaxTime : Cardinality(InWindow(t)) > max_calls
    /\ \A th \in Threads : t_pc[th] = "out"

\* a thread stored the list it built before the other thread's append
C21_LostAdmission ==
    /\ ~NoAdmissionLost
    /\ \A t \in 0..MaxTime : Cardinality(InWindow(t)) <= max_calls

\* C22: any two reverse-geocoder requests of the process, whichever
\* threads issue them, start at least one second apart.
C22_RequestsOneSecondApart ==
    \A i, j \in 1..Len(g_starts) :
        i < j => g_starts[j] - g_starts[i] >= OneSecond

\* both threads read _last_geocode_time before either wrote it, and both
\* requests went out in the same instant
C22_SimultaneousRequests ==
    /\ \E i, j \in 1..Len(g_starts) : i < j /\ g_starts[j] = g_starts[i]
    /\ \A th \in Threads : g_pc[th] = "out"

\* min(|a - b|, 360 - |a - b|)
WrapDelta(a, b) == Min({Abs(a - b), 360 - Abs(a - b)})

\* adjacent stored rows, both with a heading, more than 90 degrees apart
LargeTurns(history) ==
    { i \in 1..(Len(history) - 1) :
         /\ history[i].heading # None
         /\ history[i + 1].heading # None
         /\ WrapDelta(history[i].heading, history[i + 1].heading) > 90 }

ErraticDue(history) == Len(history) >= 3 /\ Cardinality(LargeTurns(history)) >= 3

\* the erratic_heading anomalies of one aircraft
ErraticOf(anoms, h) ==
    { i \in 1..Len(anoms) : anoms[i].icao24 = h /\ anoms[i].type = "erratic_heading" }

\* C23: on the history rows of the State Store, an aircraft of the tick
\* gets exactly one erratic_heading (MEDIUM) when its window has at least 3
\* rows and at least 3 adjacent pairs of non-null headings differ by more
\* than 90 degrees after the wrap at 360, and none otherwise; headings 350
\* and 10 count as 20 degrees apart.
C23_ErraticHeading ==
    (d_pc \in {"filter", "handle", "done"} /\ d_form = "store") =>
        /\ \A h \in mode_s_set :
              /\ Cardinality(ErraticOf(d_anoms, h)) =
                     (IF HasState(d_current, h) /\ ErraticDue(d_history[h]) THEN 1 ELSE 0)
              /\ \A i \in ErraticOf(d_anoms, h) : d_anoms[i].severity = "MEDIUM"
        /\ heading_change(350, 10) = 20
        /\ heading_change(10, 350) = 20

\* erratic_heading logged for a history that also holds the pair 350, 10
\* and a row without heading
C23_Witness ==
    /\ d_pc = "done"
    /\ d_form = "store"
    /\ \E i \in 1..Len(d_log) : d_log[i].anomaly_type = "erratic_heading"
    /\ \E i \in 1..(Len(d_history["D4"]) - 1) :
          d_history["D4"][i].heading = 350 /\ d_history["D4"][i + 1].heading = 10

\* three wrap-around pairs and no erratic_heading
C23_WrapWitness ==
    /\ d_pc = "done"
    /\ d_form = "store"
    /\ Len(d_history["D4"]) = 4
    /\ \A i \in 1..3 : {d_history["D4"][i].heading, d_history["D4"][i + 1].heading} = {350, 10}
    /\ d_log = <<>>

\* C24: when get_states raises in a tick (retries exhausted, or an
\* authentication error), the tick is skipped: the except clause follows
\* at once, then the inter-tick sleep; nothing is saved, detected, logged
\* or notified, so the history table, the anomaly log and the notifier's
\* output are what they were when the tick began.
C24_FailedPollSkipsTick ==
    [][ /\ pc = "poll" => (next_id = tick_id0 /\ Keys(aircraft_history) = tick_keys0)
        /\ (pc = "poll" /\ raised_at' = "poll") => (pc' = "except" /\ UNCHANGED storeVars)
        /\ raised_at = "poll" =>
              /\ pc = "except"
              /\ pc' \in {"except", "sleepcheck", "done"}
              /\ UNCHANGED storeVars
              /\ anomalies = <<>> /\ anomalies' = <<>>
              /\ current_timestamp = 0 ]_vars

\* get_states raised in a later tick, with snapshots and anomalies of an
\* earlier tick in the store
C24_Witness ==
    /\ pc = "except"
    /\ raised_at = "poll"
    /\ poll_count = 2
    /\ aircraft_history # {}
    /\ anomaly_log # <<>>

\* C25: every anomaly that survives the geo filter, of whatever kind and
\* whether or not its aircraft reports a position, carries
\* distance_hospital_km and near_hospital when it is handed to
\* handle_anomalies.
C25_EverySurvivorEnriched ==
    d_pc \in {"handle", "done"} => \A i \in 1..Len(d_out) : d_out[i].hospital

\* a multiple_launch, which has no icao24 of its own, logged without the
\* hospital details
C25_LaunchNotEnriched ==
    /\ d_pc = "done"
    /\ \E i \in 1..Len(d_out) :
          /\ d_out[i].type = "multiple_launch"
          /\ ~d_out[i].hospital
          /\ d_log[i].anomaly_type = "multiple_launch"

\* an anomaly of an aircraft without a reported position, logged without
\* the hospital details
C25_NoPositionNotEnriched ==
    /\ d_pc = "done"
    /\ \E i \in 1..Len(d_out) :
          /\ d_out[i].icao24 # NULL
          /\ StateOf(d_current, d_out[i].icao24).latitude = None
          /\ ~d_out[i].hospital

\* an anomaly of an aircraft with a position does carry them
C25_PositionEnriched ==
    /\ d_pc = "done"
    /\ \E i \in 1..Len(d_out) : d_out[i].hospital

\* the fields of a state vector that may be present with value 0 or false
PresenceFields == {"velocity", "baro_altitude", "geo_altitude", "vertical_rate",
                   "true_track", "last_contact", "on_ground"}

\* the state poll_aircraft_states built for a vector keeps field f of it
KeptByPoll(vector, built, f) ==
    \E j \in 1..Len(built) :
        built[j].icao24 = Upper(vector.icao24) /\ built[j][f] = vector[f]

OnRoster(vector) ==
    IF vector.icao24 = NULL THEN FALSE ELSE InRoster(Upper(vector.icao24))

\* C26: the state built from a provider vector keeps every field that is
\* present, the values 0 and false included, so that a present 0 differs
\* from an absent field in the state handed to detection and to the store.
C26_ZeroAndFalseKept ==
    [][ d_pc = "poll" =>
           \A i \in 1..Len(d_current) :
               OnRoster(d_current[i]) =>
                   \A f \in PresenceFields : KeptByPoll(d_current[i], d_current', f) ]_vars

\* what does hold: every field that is present and not 0 is kept, and
\* an absent field stays absent
C26_NonZeroKept ==
    [][ d_pc = "poll" =>
           \A i \in 1..Len(d_current) :
               OnRoster(d_current[i]) =>
                   \A f \in PresenceFields :
                       d_current[i][f] # 0 => KeptByPoll(d_current[i], d_current', f) ]_vars

\* every vector of the inputs reports on_ground; a vector that reported
\* false has been parsed, detected on and logged with on_ground absent
C26_FalseBecameNull ==
    /\ d_pc = "done"
    /\ \E i \in 1..Len(d_current) : d_current[i].on_ground = None

\* of a history read newest first: the three stored records immediately
\* preceding the most recent one
PrecedingThree(history) == SubSeq(history, 2, 4)

\* the conditions of sudden_speed_increase over a given baseline window
SuddenAllowed(st, window) ==
    LET vs    == SelectSeq([ i \in 1..Len(window) |-> window[i].velocity ],
                           LAMBDA v : v # None /\ v # 0)
        n     == Len(vs)
        total == Sum(vs)
    IN  /\ st.velocity # None
        /\ n > 0
        /\ total > 0
        /\ st.velocity * KnotsNum > 30 * KnotsDen
        /\ (st.velocity * n - total) * 100 > 60 * total
        /\ (st.velocity * n - total) * KnotsNum > 20 * KnotsDen * n

\* sudden_speed_increase of histories of exactly n stored records
SuddenOnlyIfAllowed(lens) ==
    (d_pc \in {"filter", "handle", "done"} /\ d_form = "store") =>
        \A h \in mode_s_set :
            (/\ HasState(d_current, h)
             /\ Len(d_history[h]) \in lens
             /\ Emitted(d_anoms, h, "sudden_speed_increase"))
                => SuddenAllowed(StateOf(d_current, h), PrecedingThree(d_history[h]))

\* C27: with at least 4 stored records, read newest first, a
\* sudden_speed_increase is emitted only if the mean of the non-null,
\* non-zero velocities of the three records preceding the most recent one
\* is positive, the current speed exceeds 30 knots, and the increase over
\* that mean exceeds 60 percent and 20 knots.
C27_BaselinePrecedesLatest == SuddenOnlyIfAllowed(4..MaxHistory)

\* with exactly 5 stored records history[-4:-1] is that window
C27_OnFiveRecords == SuddenOnlyIfAllowed({5})

\* four stored records, of which only the most recent has a velocity:
\* the anomaly is emitted on a baseline that is the most recent record
C27_LatestIsBaseline ==
    /\ d_pc = "done"
    /\ d_form = "store"
    /\ Len(d_history["B2"]) = 4
    /\ d_history["B2"][1].velocity = 20
    /\ \A i \in 2..4 : d_history["B2"][i].velocity = None
    /\ \E i \in 1..Len(d_log) : d_log[i].anomaly_type = "sudden_speed_increase"

\* C28: a non-empty states list selects the combined box of the states,
\* whatever the region; a region with states null or empty selects the
\* region's box; polling has no box only when neither is given.
C28_RegionOrStatesSelectBBox ==
    b_pc = "done" =>
        LET region == b_args.region
            codes  == b_args.states.codes
        IN  /\ codes # <<>> => b_bbox = get_states_bbox(codes)
            /\ (region # NULL /\ codes = <<>>) => b_bbox = region_bbox_of(region)
            /\ b_bbox = NoBBox => (region = NULL /\ codes = <<>>)

\* MonitorService(region="west", states=[]) polls the whole sky
C28_RegionIgnored ==
    /\ b_pc = "done"
    /\ b_args.region = "west"
    /\ b_args.states = [given |-> TRUE, codes |-> <<>>]
    /\ b_bbox = NoBBox

\* the same through MonitorWorker.run, which turns states=None into []
C28_WorkerRegionIgnored ==
    /\ C28_RegionIgnored
    /\ b_args.entry = "gui"

\* what does hold: the rule for states that are null, and for non-empty
\* states
C28_WithoutEmptyList ==
    (b_pc = "done" /\ ~(b_args.states.given /\ b_args.states.codes = <<>>)) =>
        /\ b_args.states.codes # <<>> => b_bbox = get_states_bbox(b_args.states.codes)
        /\ (b_args.region # NULL /\ b_args.states.codes = <<>>) =>
                b_bbox = region_bbox_of(b_args.region)

\* C29: the sleep after a tick makes up the rest of interval_seconds:
\* from one tick start to the next it is max(interval_seconds, tick
\* duration), and a tick that took interval_seconds or longer is followed
\* by no sleep at all.
C29_SleepMakesUpTheInterval ==
    [][ (pc = "sleep" /\ pc' = "sleeping") =>
           sleep_left' = Max({0, MaxInterval - TickDuration}) ]_vars

\* what the loop does: the sleep is interval_seconds whatever the tick took
C29_SleepIsTheInterval ==
    [][ (pc = "sleep" /\ pc' = "sleeping") => sleep_left' = MaxInterval ]_vars

\* a tick that took longer than interval_seconds, and the whole of
\* interval_seconds still to be slept
C29_OverrunThenFullSleep ==
    /\ pc = "sleeping"
    /\ TickDuration > MaxInterval
    /\ sleep_left = MaxInterval

\* the (name, value) pairs of a params dict
PairSet(params) == { params[i] : i \in 1..Len(params) }

SameRequest(r1, r2) ==
    r1.endpoint = r2.endpoint /\ PairSet(r1.params) = PairSet(r2.params)

\* C30: a lookup finds the file written for an earlier request exactly
\* when the two requests have the same endpoint and the same parameter
\* names and values, in whatever order the parameters were given.
C30_KeysSeparateRequests ==
    k_pc = "done" => (k_hit <=> SameRequest(k_written, k_asked))

\* the half that holds: the same endpoint and params give the same key,
\* whatever the order of the parameters
C30_SameRequestSameKey ==
    k_pc = "done" => (SameRequest(k_written, k_asked) => k_hit)

\* two values that differ after the 100th character of the key
C30_TruncatedKeysCollide ==
    /\ k_pc = "done"
    /\ k_hit
    /\ k_written.endpoint = k_asked.endpoint
    /\ k_written.params = << [name |-> "a", value |-> [str |-> TRUE, chars |-> Long("1")]] >>
    /\ k_asked.params = << [name |-> "a", value |-> [str |-> TRUE, chars |-> Long("5")]] >>

\* two values that differ in a character the key replaces by "_"
C30_SanitisedKeysCollide ==
    /\ k_pc = "done"
    /\ k_hit
    /\ k_written.params = << [name |-> "a", value |-> [str |-> TRUE, chars |-> << "1", ",", "5" >>]] >>
    /\ k_asked.params = << [name |-> "a", value |-> [str |-> TRUE, chars |-> << "1", ".", "5" >>]] >>

\* the same params given in the other order find the file
C30_OrderWitness ==
    /\ k_pc = "done"
    /\ k_hit
    /\ Len(k_written.params) = 2
    /\ k_written.params # k_asked.params
    /\ SameRequest(k_written, k_asked)

====
